---- MODULE Spec2Model ----
(***************************************************************************)
(* Breakout signal engine of the Francis BankNifty scanner                 *)
(* (src/src/signal_generator.py): the swing levels, the last signal, the   *)
(* signal history, and the operations of SignalGenerator on them.          *)
(*                                                                         *)
(* Prices and levels are floats in the code; here they are integers of a   *)
(* small range (only their order matters to the comparisons).  Signal's    *)
(* timestamp (datetime.now()) and SignalGenerator.daily_data are written   *)
(* and never read by any operation; they are not part of the state here.   *)
(***************************************************************************)
EXTENDS Integers, Sequences, FiniteSets, TLC

VARIABLES
    swing_data,       \* SignalGenerator.swing_data: None or the levels dict
    last_signal,      \* SignalGenerator.last_signal: None or a Signal
    signals_history,  \* SignalGenerator.signals_history: list of Signal
    ret,              \* the last call: its name, its arguments, what it returned
                      \* (for clear_history: the last_signal it dropped)
    current_price_data,  \* BankNiftyScanner.current_price_data: None or a dict
    is_running,       \* BankNiftyScanner.is_running
    pc                \* per thread: where it is in BankNiftyScanner.scan, with
                      \* the locals of that call

vars == <<swing_data, last_signal, signals_history, ret,
          current_price_data, is_running, pc>>

\* ------------------------------------------------------------------ bounds
\* Most signals the history may hold before check_signal is no longer called.
MaxHistory == 2

\* Most bars of a frame handed to find_swing_points on its own.
MaxBars == 5

\* lookback_days runs over 1 .. MaxLookback and the default.
MaxLookback == 2

\* ------------------------------------------------------------- value sets
\* Python's None.
None == [none |-> TRUE]

\* Values a swing level (a bar's High or Low) takes: two, with a price between
\* them, so that levels may be ordered, equal or inverted (swing_high below
\* swing_low, the two coming from different bars).
LevelValues == {1, 3}

\* Prices fed to check_signal and get_market_status: below, at, between and
\* above the level values.
Prices == 0 .. 4

\* SignalGenerator.lookback_days: BankNiftyScanner builds SignalGenerator()
\* with the default, and nothing assigns the field afterwards.
lookback_days == 10

\* find_swing_points needs one neighbour on each side of a swing point.
MinBars == 3

\* A calendar day d as strftime("%Y-%m-%d") prints it.
FormatDate(d) == (IF d < 10 THEN "2024-01-0" ELSE "2024-01-") \o ToString(d)

\* The day set_previous_day_data is called on (app.py passes datetime.now()).
Today == 1

\* ------------------------------------------------------------ the levels
\* The dict set_swing_levels, set_previous_day_data and find_swing_points build.
Levels(high, low, high_date, low_date) ==
    [swing_high |-> high, swing_low |-> low,
     swing_high_date |-> high_date, swing_low_date |-> low_date]


\* A pandas DataFrame of daily bars: its rows in order, each a bar with the
\* columns find_swing_points reads.
DataFrame(rows) == [rows |-> rows]

Bar(date, high, low) == [Date |-> date, High |-> high, Low |-> low]

\* ------------------------------------------------------ find_swing_points
\* rows with the bar b put behind the last row whose Date is not later.
RECURSIVE InsertByDate(_, _)
InsertByDate(rows, b) ==
    IF rows = <<>> THEN <<b>>
    ELSE IF rows[Len(rows)].Date <= b.Date THEN Append(rows, b)
    ELSE Append(InsertByDate(SubSeq(rows, 1, Len(rows) - 1), b), rows[Len(rows)])

\* df.sort_values("Date").reset_index(drop=True)
RECURSIVE SortByDate(_)
SortByDate(rows) ==
    IF rows = <<>> THEN <<>>
    ELSE InsertByDate(SortByDate(SubSeq(rows, 1, Len(rows) - 1)), rows[Len(rows)])

\* range(1, len(df) - 1), as 1-based positions.
InteriorIndices(rows) == 2 .. (Len(rows) - 1)

\* IsSwingHigh with >= for >: a bar level with a neighbour qualifies.
IsSwingHighOrEqual(rows, i) ==
    rows[i].High >= rows[i - 1].High /\ rows[i].High >= rows[i + 1].High

IsSwingHigh(rows, i) ==
    rows[i].High > rows[i - 1].High /\ rows[i].High > rows[i + 1].High

IsSwingLow(rows, i) ==
    rows[i].Low < rows[i - 1].Low /\ rows[i].Low < rows[i + 1].Low

\* The positions appended to swing_highs / swing_lows.
SwingHighs(rows) == {i \in InteriorIndices(rows) : IsSwingHigh(rows, i)}

SwingLows(rows) == {i \in InteriorIndices(rows) : IsSwingLow(rows, i)}

\* MostRecent taking swing_highs[0], the oldest swing point.
MostRecentOldest(S) == CHOOSE i \in S : \A j \in S : j >= i

\* swing_highs[-1]: the loop appends in increasing position.
MostRecent(S) == CHOOSE i \in S : \A j \in S : j <= i

\* RecentData without the lookback: df.iloc[:-1] whatever the length.
RecentDataWholeFrame(rows, lookback) == 1 .. (Len(rows) - 1)

\* RecentData that keeps the final bar: df.iloc[-lookback_days:], df.iloc[:].
RecentDataWithFinal(rows, lookback) ==
    IF Len(rows) > lookback /\ lookback > 0
    THEN (Len(rows) - lookback + 1) .. Len(rows)
    ELSE 1 .. Len(rows)

\* df.iloc[-lookback_days:-1] if len(df) > lookback_days else df.iloc[:-1],
\* as the set of 1-based positions it keeps (iloc[-0:-1] is iloc[0:-1]).
RecentData(rows, lookback) ==
    IF Len(rows) > lookback /\ lookback > 0
    THEN (Len(rows) - lookback + 1) .. (Len(rows) - 1)
    ELSE 1 .. (Len(rows) - 1)

\* recent_data["High"].idxmax(): the first position holding the maximum.
IdxMaxHigh(rows, W) ==
    CHOOSE i \in W : \A j \in W :
        /\ rows[j].High <= rows[i].High
        /\ (j < i => rows[j].High < rows[i].High)

\* recent_data["Low"].idxmin(): the first position holding the minimum.
IdxMinLow(rows, W) ==
    CHOOSE i \in W : \A j \in W :
        /\ rows[j].Low >= rows[i].Low
        /\ (j < i => rows[j].Low > rows[i].Low)

\* RecentSwingHigh without the fallback: no swing high, no result.
RecentSwingHighNoFallback(rows, lookback) ==
    IF SwingHighs(rows) # {} THEN MostRecent(SwingHighs(rows)) ELSE 0

\* The position of recent_swing_high, 0 where the code returns None.
RecentSwingHigh(rows, lookback) ==
    IF SwingHighs(rows) # {} THEN MostRecent(SwingHighs(rows))
    ELSE IF RecentData(rows, lookback) # {}
         THEN IdxMaxHigh(rows, RecentData(rows, lookback))
         ELSE 0

\* RecentSwingLow that falls back on the whole frame when recent_data is
\* empty, so that the low side never fails.
RecentSwingLowWholeFrame(rows, lookback) ==
    IF SwingLows(rows) # {} THEN MostRecent(SwingLows(rows))
    ELSE IF RecentData(rows, lookback) # {}
         THEN IdxMinLow(rows, RecentData(rows, lookback))
         ELSE IdxMinLow(rows, 1 .. Len(rows))

\* The position of recent_swing_low, 0 where the code returns None.
RecentSwingLow(rows, lookback) ==
    IF SwingLows(rows) # {} THEN MostRecent(SwingLows(rows))
    ELSE IF RecentData(rows, lookback) # {}
         THEN IdxMinLow(rows, RecentData(rows, lookback))
         ELSE 0

\* find_swing_points accepting two bars: len(df) < 2 for len(df) < 3.
find_swing_points_two_bars(df, lookback) ==
    IF df = None THEN None
    ELSE IF Len(df.rows) < MinBars - 1 THEN None
    ELSE LET rows == SortByDate(df.rows)
             hi == RecentSwingHigh(rows, lookback)
             lo == RecentSwingLow(rows, lookback)
         IN  IF hi = 0 \/ lo = 0 THEN None
             ELSE Levels(rows[hi].High, rows[lo].Low,
                         FormatDate(rows[hi].Date), FormatDate(rows[lo].Date))

\* SignalGenerator.find_swing_points(df): the levels dict, or None.
find_swing_points(df, lookback) ==
    IF df = None THEN None
    ELSE IF Len(df.rows) < MinBars THEN None
    ELSE LET rows == SortByDate(df.rows)
             hi == RecentSwingHigh(rows, lookback)
             lo == RecentSwingLow(rows, lookback)
         IN  IF hi = 0 \/ lo = 0 THEN None
             ELSE Levels(rows[hi].High, rows[lo].Low,
                         FormatDate(rows[hi].Date), FormatDate(rows[lo].Date))


\* ------------------------------------------------------------ the signals
\* Signal with the copy-paste slip of a SELL built from the BUY branch: the
\* trigger is always the swing high.
SignalTriggerHigh(type, price, trigger, levels) ==
    [signal_type |-> type, price |-> price, trigger_level |-> levels.swing_high,
     swing_high |-> levels.swing_high, swing_low |-> levels.swing_low,
     swing_high_date |-> levels.swing_high_date,
     swing_low_date |-> levels.swing_low_date]

\* The Signal dataclass, as check_signal fills it from the levels in effect.
Signal(type, price, trigger, levels) ==
    [signal_type |-> type, price |-> price, trigger_level |-> trigger,
     swing_high |-> levels.swing_high, swing_low |-> levels.swing_low,
     swing_high_date |-> levels.swing_high_date,
     swing_low_date |-> levels.swing_low_date]

\* BreaksHigh with >= for >.
BreaksHighOrEqual(price, levels) == price >= levels.swing_high

\* current_price > swing_high
BreaksHigh(price, levels) == price > levels.swing_high

\* BreaksLow with <= for <.
BreaksLowOrEqual(price, levels) == price <= levels.swing_low

\* current_price < swing_low
BreaksLow(price, levels) == price < levels.swing_low

\* Rearmed without the comparison with the last signal.
RearmedAlways(last, type) == TRUE

\* self.last_signal is None or self.last_signal.signal_type != type
Rearmed(last, type) == last = None \/ last.signal_type # type

\* NewSignal reading absent levels as levels of 0 instead of returning None.
NewSignalDefaultLevels(levels, last, price) ==
    LET lv == IF levels = None THEN Levels(0, 0, "", "") ELSE levels
    IN  IF BreaksHigh(price, lv)
        THEN IF Rearmed(last, "BUY")
             THEN Signal("BUY", price, lv.swing_high, lv)
             ELSE None
        ELSE IF BreaksLow(price, lv)
        THEN IF Rearmed(last, "SELL")
             THEN Signal("SELL", price, lv.swing_low, lv)
             ELSE None
        ELSE None

\* NewSignal with the low test before the high test.
NewSignalLowFirst(levels, last, price) ==
    IF levels = None THEN None
    ELSE IF BreaksLow(price, levels)
         THEN IF Rearmed(last, "SELL")
              THEN Signal("SELL", price, levels.swing_low, levels)
              ELSE None
    ELSE IF BreaksHigh(price, levels)
         THEN IF Rearmed(last, "BUY")
              THEN Signal("BUY", price, levels.swing_high, levels)
              ELSE None
    ELSE None

\* The local `signal` of check_signal when it reaches line 237: a Signal, or
\* None (no levels, no breakout, or the direction that fired last).
NewSignal(levels, last, price) ==
    IF levels = None THEN None
    ELSE IF BreaksHigh(price, levels)
         THEN IF Rearmed(last, "BUY")
              THEN Signal("BUY", price, levels.swing_high, levels)
              ELSE None
    ELSE IF BreaksLow(price, levels)
         THEN IF Rearmed(last, "SELL")
              THEN Signal("SELL", price, levels.swing_low, levels)
              ELSE None
    ELSE None

\* LastSignalAfter without the "if signal:" of line 237: a check that emits
\* nothing forgets the last signal.
LastSignalAfterAssigned(last, signal) == signal

\* if signal: self.last_signal = signal
LastSignalAfter(last, signal) == IF signal # None THEN signal ELSE last

\* HistoryAfter without the append.
HistoryAfterNoAppend(history, signal) == history

\* if signal: self.signals_history.append(signal)
HistoryAfter(history, signal) ==
    IF signal # None THEN Append(history, signal) ELSE history

\* get_market_status with >= and <= for > and <.
get_market_status_inclusive(levels, price) ==
    IF levels = None THEN [status |-> "NO_DATA"]
    ELSE LET above == price >= levels.swing_high
             below == price <= levels.swing_low
         IN  [status |-> IF above THEN "ABOVE_SWING_HIGH"
                         ELSE IF below THEN "BELOW_SWING_LOW"
                         ELSE "WITHIN_RANGE",
              signal_active |-> IF above THEN "BUY"
                                ELSE IF below THEN "SELL"
                                ELSE "NEUTRAL",
              current_price |-> price,
              previous_high |-> levels.swing_high,
              previous_low |-> levels.swing_low,
              swing_high |-> levels.swing_high,
              swing_low |-> levels.swing_low,
              swing_high_date |-> levels.swing_high_date,
              swing_low_date |-> levels.swing_low_date,
              distance_to_high |-> levels.swing_high - price,
              distance_to_low |-> price - levels.swing_low,
              previous_day_date |-> "High: " \o levels.swing_high_date
                                    \o ", Low: " \o levels.swing_low_date]

\* SignalGenerator.get_market_status(current_price): the dict it returns.
get_market_status(levels, price) ==
    IF levels = None THEN [status |-> "NO_DATA"]
    ELSE LET above == price > levels.swing_high
             below == price < levels.swing_low
         IN  [status |-> IF above THEN "ABOVE_SWING_HIGH"
                         ELSE IF below THEN "BELOW_SWING_LOW"
                         ELSE "WITHIN_RANGE",
              signal_active |-> IF above THEN "BUY"
                                ELSE IF below THEN "SELL"
                                ELSE "NEUTRAL",
              current_price |-> price,
              previous_high |-> levels.swing_high,
              previous_low |-> levels.swing_low,
              swing_high |-> levels.swing_high,
              swing_low |-> levels.swing_low,
              swing_high_date |-> levels.swing_high_date,
              swing_low_date |-> levels.swing_low_date,
              distance_to_high |-> levels.swing_high - price,
              distance_to_low |-> price - levels.swing_low,
              previous_day_date |-> "High: " \o levels.swing_high_date
                                    \o ", Low: " \o levels.swing_low_date]

\* ----------------------------------------------------------------- inputs
\* The date strings set_swing_levels is called with: the dates are copied
\* into the levels and the signals and never read by a comparison.
DateArgs == {FormatDate(Today)}

\* The bars of day d: a bar's High is not below its Low.
BarsOn(d) ==
    {Bar(d, hl[1], hl[2]) :
        hl \in {x \in LevelValues \X LevelValues : x[1] >= x[2]}}

\* The frames of n bars on the consecutive days 1 .. n, in date order (the
\* order data_fetcher.py delivers).
RowsOfLen(n) == {rows \in [1 .. n -> UNION {BarsOn(d) : d \in 1 .. n}] :
                    \A i \in 1 .. n : rows[i].Date = i}

\* The frames update_from_dataframe is called with: no frame, the empty
\* frame, the frames too short for find_swing_points and the shortest it
\* accepts.
Frames ==
    {None} \cup {DataFrame(rows) : rows \in UNION {RowsOfLen(n) : n \in 0 .. MinBars}}

\* ---------------------------------------------------------------- threads
\* The threads that call into the scanner of app.py: the one that runs
\* start_scanner() and with it the initial scan, the scheduler's worker, and
\* a Flask request handler.
Threads == {"start", "scheduler", "request"}

\* The locals of a scan in progress: the position, the price sample seen, the
\* price and signal locals, how the email went, the calls made so far and the
\* value about to be returned. entry is not a local of the code: where a scan
\* is compared with the state it started from, it holds that state.
Frame(at, sample, price, signal, email, calls, value) ==
    [at |-> at, sample |-> sample, price |-> price, signal |-> signal,
     email |-> email, calls |-> calls, value |-> value, entry |-> None]

\* A thread outside scan.
Idle == Frame("idle", None, 0, None, "", {}, None)

\* BankNiftyScanner.__init__, lines 31-33, with no thread inside scan.
ScannerAtRest ==
    /\ current_price_data = None
    /\ is_running = FALSE
    /\ pc = [t \in Threads |-> Idle]

scanner_vars == <<current_price_data, is_running, pc>>

\* ---------------------------------------------------------------- actions
\* SignalGenerator.__init__
Init ==
    /\ swing_data = None
    /\ last_signal = None
    /\ signals_history = <<>>
    /\ ret = [op |-> "__init__"]
    /\ ScannerAtRest

\* SignalGenerator.set_swing_levels(swing_high, swing_low, high_date, low_date)
SetSwingLevels ==
    \E high \in LevelValues, low \in LevelValues,
       high_date \in DateArgs, low_date \in DateArgs :
        /\ swing_data' = Levels(high, low, high_date, low_date)
        /\ ret' = [op |-> "set_swing_levels", high |-> high, low |-> low,
                   high_date |-> high_date, low_date |-> low_date]
        /\ UNCHANGED <<last_signal, signals_history>>

\* set_previous_day_data that also forgets the last signal.
SetPreviousDayDataResetting ==
    \E high \in LevelValues, low \in LevelValues :
        LET date_str == FormatDate(Today)
        IN  /\ swing_data' = Levels(high, low, date_str, date_str)
            /\ last_signal' = None
            /\ ret' = [op |-> "set_previous_day_data", high |-> high, low |-> low,
                       date |-> Today]
            /\ UNCHANGED signals_history

\* SignalGenerator.set_previous_day_data(high, low, close, date), with a
\* datetime as app.py passes it; close is not used.
SetPreviousDayData ==
    \E high \in LevelValues, low \in LevelValues :
        LET date_str == FormatDate(Today)
        IN  /\ swing_data' = Levels(high, low, date_str, date_str)
            /\ ret' = [op |-> "set_previous_day_data", high |-> high, low |-> low,
                       date |-> Today]
            /\ UNCHANGED <<last_signal, signals_history>>

\* if swing_points: self.swing_data = swing_points, with None for falsy.
SwingDataAfter(levels, swing_points) ==
    IF swing_points # None THEN swing_points ELSE levels

\* What update_from_dataframe(df) has in swing_points at line 160, None where
\* it returned at line 155 (df is None or df.empty) before computing it.
SwingPoints(df, lookback) ==
    IF df = None THEN None
    ELSE IF df.rows = <<>> THEN None
    ELSE find_swing_points(df, lookback)

\* swing_points on the engine BankNiftyScanner builds (default lookback_days).
SwingPointsOf(df) == SwingPoints(df, lookback_days)

\* The values of swing_points over the frames the model calls with.
SwingPointsFound == {SwingPointsOf(df) : df \in Frames}

\* SignalGenerator.update_from_dataframe(df), for every df of Frames
UpdateFromDataframe ==
    \E swing_points \in SwingPointsFound :
        /\ swing_data' = SwingDataAfter(swing_data, swing_points)
        /\ ret' = [op |-> "update_from_dataframe",
                   value |-> (swing_points # None)]
        /\ UNCHANGED <<last_signal, signals_history>>

\* SignalGenerator.check_signal(current_price)
CheckSignal ==
    \E price \in Prices :
        LET signal == NewSignal(swing_data, last_signal, price)
        IN  /\ signal # None => Len(signals_history) < MaxHistory
            /\ last_signal' = LastSignalAfter(last_signal, signal)
            /\ signals_history' = HistoryAfter(signals_history, signal)
            /\ ret' = [op |-> "check_signal", price |-> price, value |-> signal]
            /\ UNCHANGED swing_data

\* get_market_status that records the breakout it reports, as check_signal does.
GetMarketStatusRecording ==
    \E price \in Prices :
        LET signal == NewSignal(swing_data, last_signal, price)
        IN  /\ signal # None => Len(signals_history) < MaxHistory
            /\ last_signal' = LastSignalAfter(last_signal, signal)
            /\ signals_history' = HistoryAfter(signals_history, signal)
            /\ ret' = [op |-> "get_market_status", price |-> price,
                       value |-> get_market_status(swing_data, price)]
            /\ UNCHANGED swing_data

\* SignalGenerator.get_market_status(current_price)
GetMarketStatus ==
    \E price \in Prices :
        /\ ret' = [op |-> "get_market_status", price |-> price,
                   value |-> get_market_status(swing_data, price)]
        /\ UNCHANGED <<swing_data, last_signal, signals_history>>

\* clear_history that empties the list and keeps last_signal.
ClearHistoryKeepsLast ==
    /\ signals_history' = <<>>
    /\ last_signal' = last_signal
    /\ ret' = [op |-> "clear_history", dropped |-> last_signal]
    /\ UNCHANGED swing_data

\* SignalGenerator.clear_history()
ClearHistory ==
    /\ signals_history' = <<>>
    /\ last_signal' = None
    /\ ret' = [op |-> "clear_history", dropped |-> last_signal]
    /\ UNCHANGED swing_data

Next ==
    \/ SetSwingLevels /\ UNCHANGED scanner_vars
    \/ SetPreviousDayData /\ UNCHANGED scanner_vars
    \/ UpdateFromDataframe /\ UNCHANGED scanner_vars
    \/ CheckSignal /\ UNCHANGED scanner_vars
    \/ GetMarketStatus /\ UNCHANGED scanner_vars
    \/ ClearHistory /\ UNCHANGED scanner_vars

Spec == Init /\ [][Next]_vars

\* ------------------------------------------------- reading the history
\* The default of get_signals_history's limit.
DefaultLimit == 50

\* The limits get_signals_history is called with.
Limits == (0 .. (MaxHistory + 1)) \cup {DefaultLimit}

\* Signal.to_dict(): the dict of the dataclass's fields, key by key (the
\* timestamp, which the model's Signal leaves out, goes through isoformat()).
to_dict(signal) ==
    [signal_type |-> signal.signal_type,
     price |-> signal.price,
     trigger_level |-> signal.trigger_level,
     swing_high |-> signal.swing_high,
     swing_low |-> signal.swing_low,
     swing_high_date |-> signal.swing_high_date,
     swing_low_date |-> signal.swing_low_date]

\* Python's list[start:] for an integer start: a negative start counts from
\* the end and is clipped to the front, a start past the end gives [].
SliceFrom(list, start) ==
    LET n == Len(list)
        first == IF start < 0
                 THEN (IF n + start < 0 THEN 0 ELSE n + start)
                 ELSE (IF start > n THEN n ELSE start)
    IN  SubSeq(list, first + 1, n)

\* [s.to_dict() for s in self.signals_history[-limit:]]
get_signals_history(history, limit) ==
    LET tail == SliceFrom(history, 0 - limit)
    IN  [i \in 1 .. Len(tail) |-> to_dict(tail[i])]

\* SignalGenerator.get_signals_history(limit)
GetSignalsHistory ==
    \E limit \in Limits :
        /\ ret' = [op |-> "get_signals_history", limit |-> limit,
                   held |-> signals_history,
                   value |-> get_signals_history(signals_history, limit)]
        /\ UNCHANGED <<swing_data, last_signal, signals_history>>

\* The engine with its history read between checks and clearings.
HistoryNext ==
    \/ SetSwingLevels /\ UNCHANGED scanner_vars
    \/ CheckSignal /\ UNCHANGED scanner_vars
    \/ GetSignalsHistory /\ UNCHANGED scanner_vars
    \/ ClearHistory /\ UNCHANGED scanner_vars

SpecHistory == Init /\ [][HistoryNext]_vars

\* ------------------------------------------- find_swing_points on its own
\* A SignalGenerator(lookback_days) is handed one frame; find_swing_points or
\* update_from_dataframe is then applied to it.
SwingValues == {1, 2, 3}

\* The (High, Low) pairs of a bar over SwingValues: High is not below Low.
SwingHighLow == {x \in SwingValues \X SwingValues : x[1] >= x[2]}

\* The rows of bars on the consecutive days 1 .. Len(hl), in date order, bar
\* i with the (High, Low) pair hl[i].
RowsOf(hl) == [i \in 1 .. Len(hl) |-> Bar(i, hl[i][1], hl[i][2])]

\* rows latest first, the order of a frame that was not sorted yet.
Reverse(rows) == [i \in 1 .. Len(rows) |-> rows[Len(rows) + 1 - i]]

\* A frame of the bars hl, oldest first or (reversed) latest first.
SwingFrame(hl, reversed) ==
    DataFrame(IF reversed THEN Reverse(RowsOf(hl)) ELSE RowsOf(hl))

\* The call at hand: the frame df on an engine built with lookback.
FrameAtHand(df, lookback) == [op |-> "df", df |-> df, lookback |-> lookback]

\* The values the constructor argument lookback_days takes.
Lookbacks == (1 .. MaxLookback) \cup {lookback_days}

\* The levels the engine holds when the frame arrives, from an earlier
\* set_swing_levels(3, 1, today, today).
HeldLevels == Levels(3, 1, FormatDate(Today), FormatDate(Today))

\* SignalGenerator(lookback_days=lookback) and a frame about to be passed: no
\* frame, or a frame of at most MaxBars bars.
SwingInit ==
    /\ swing_data = HeldLevels
    /\ last_signal = None
    /\ signals_history = <<>>
    /\ ScannerAtRest
    /\ \E lookback \in Lookbacks :
        \/ ret = FrameAtHand(None, lookback)
        \/ \E n \in 0 .. MaxBars, reversed \in BOOLEAN :
            \E hl \in [1 .. n -> SwingHighLow] :
                ret = FrameAtHand(SwingFrame(hl, reversed), lookback)

\* SignalGenerator.find_swing_points(df) on the frame at hand
FindSwingPoints ==
    /\ ret.op = "df"
    /\ ret' = [op |-> "find_swing_points", df |-> ret.df,
               lookback |-> ret.lookback,
               value |-> find_swing_points(ret.df, ret.lookback)]
    /\ UNCHANGED <<swing_data, last_signal, signals_history>>

\* SignalGenerator.update_from_dataframe(df) on the frame at hand
UpdateFromFrame ==
    /\ ret.op = "df"
    /\ LET swing_points == SwingPoints(ret.df, ret.lookback)
       IN  /\ swing_data' = SwingDataAfter(swing_data, swing_points)
           /\ ret' = [op |-> "update_from_dataframe", df |-> ret.df,
                      lookback |-> ret.lookback, held |-> swing_data,
                      value |-> (swing_points # None)]
    /\ UNCHANGED <<last_signal, signals_history>>

SwingNext ==
    \/ FindSwingPoints /\ UNCHANGED scanner_vars
    \/ UpdateFromFrame /\ UNCHANGED scanner_vars

SpecSwing == SwingInit /\ [][SwingNext]_vars

\* =================================================================== claims
\* The engine state no read may change.
engine == <<swing_data, last_signal, signals_history>>

\* C1: once check_signal has emitted a direction it does not emit that
\* direction again until the opposite direction was emitted or clear_history
\* was called, whatever prices and level replacements come in between: any
\* two adjacent entries of signals_history differ in signal_type.
C1_Debounce ==
    \A i \in 1 .. (Len(signals_history) - 1) :
        signals_history[i].signal_type # signals_history[i + 1].signal_type

\* C1 happens: a SELL then a BUY were recorded under different levels, and a
\* further price above the high in effect was then fed and gave no signal.
C1_Witness ==
    /\ Len(signals_history) = 2
    /\ signals_history[1].signal_type = "SELL"
    /\ signals_history[2].signal_type = "BUY"
    /\ signals_history[1].swing_high # signals_history[2].swing_high
    /\ swing_data # None
    /\ ret.op = "check_signal"
    /\ ret.value = None
    /\ ret.price > swing_data.swing_high

\* C2: with levels present, check_signal(p) returns a signal exactly when
\* there is a candidate direction (BUY when p > swing_high, otherwise SELL
\* when p < swing_low) and last_signal is absent or of another direction than
\* the candidate; the signal returned is of the candidate's direction.
C2_EmitsIffRearmedCandidate ==
    [][(ret'.op = "check_signal" /\ swing_data # None) =>
        LET p == ret'.price
            candidate == IF p > swing_data.swing_high THEN "BUY"
                         ELSE IF p < swing_data.swing_low THEN "SELL"
                         ELSE "none"
            emits == /\ candidate # "none"
                     /\ (last_signal = None \/ last_signal.signal_type # candidate)
        IN  /\ (ret'.value # None) <=> emits
            /\ ret'.value # None => ret'.value.signal_type = candidate]_vars

\* C2 happens: a price below the low was fed while the last signal was a
\* SELL, and check_signal returned None.
C2_Witness ==
    /\ ret.op = "check_signal"
    /\ swing_data # None
    /\ ret.price < swing_data.swing_low
    /\ ret.price <= swing_data.swing_high
    /\ last_signal # None
    /\ last_signal.signal_type = "SELL"
    /\ ret.value = None

\* C3: last_signal and signals_history agree in every state (last_signal is
\* None exactly when the history is empty, and is its last element
\* otherwise), and a check_signal call either appends exactly the signal it
\* returns and makes it last_signal, or changes neither.
C3_LastSignalIsHistoryTail ==
    /\ [](/\ (last_signal = None) <=> (signals_history = <<>>)
          /\ signals_history # <<>> =>
                last_signal = signals_history[Len(signals_history)])
    /\ [][ret'.op = "check_signal" =>
            \/ /\ ret'.value = None
               /\ last_signal' = last_signal
               /\ signals_history' = signals_history
            \/ /\ ret'.value # None
               /\ last_signal' = ret'.value
               /\ signals_history' = Append(signals_history, ret'.value)]_vars

\* C3 happens: check_signal has just returned the second signal of the history.
C3_Witness ==
    /\ ret.op = "check_signal"
    /\ ret.value # None
    /\ Len(signals_history) = 2
    /\ last_signal = ret.value

\* C4: a price equal to a level never triggers (p = swing_high with
\* p >= swing_low, or p = swing_low with p <= swing_high, returns None and
\* changes nothing), while a price above swing_high with last_signal absent
\* emits BUY.
C4_StrictBoundary ==
    [][(ret'.op = "check_signal" /\ swing_data # None) =>
        LET p == ret'.price
            high == swing_data.swing_high
            low == swing_data.swing_low
        IN  /\ ((p = high /\ p >= low) \/ (p = low /\ p <= high)) =>
                  (ret'.value = None /\ engine' = engine)
            /\ (p > high /\ last_signal = None) =>
                  (ret'.value # None /\ ret'.value.signal_type = "BUY")]_vars

\* C4 happens: with no last signal, the price equal to the swing high (above
\* the swing low) was fed and check_signal returned None.
C4_Witness ==
    /\ ret.op = "check_signal"
    /\ swing_data # None
    /\ ret.price = swing_data.swing_high
    /\ ret.price > swing_data.swing_low
    /\ last_signal = None
    /\ ret.value = None

\* C5: while the engine holds no levels, check_signal returns None for every
\* price and changes nothing, and get_market_status returns status NO_DATA.
C5_NoLevelsFailsClosed ==
    [][swing_data = None =>
        /\ ret'.op = "check_signal" => (ret'.value = None /\ engine' = engine)
        /\ ret'.op = "get_market_status" =>
              ret'.value = [status |-> "NO_DATA"]]_vars

\* C5 happens: check_signal was called with a positive price on an engine
\* without levels.
C5_Witness ==
    /\ swing_data = None
    /\ ret.op = "check_signal"
    /\ ret.price > 0
    /\ ret.value = None

\* C6: every recorded signal agrees with the snapshot it carries (a BUY has
\* trigger_level = swing_high < price, a SELL trigger_level = swing_low >
\* price), the snapshot is the levels in effect when it was emitted, and a
\* later level replacement leaves the recorded signals as they were.
C6_SnapshotConsistent ==
    /\ [](\A i \in 1 .. Len(signals_history) :
            LET s == signals_history[i]
            IN  \/ /\ s.signal_type = "BUY"
                   /\ s.trigger_level = s.swing_high
                   /\ s.price > s.swing_high
                \/ /\ s.signal_type = "SELL"
                   /\ s.trigger_level = s.swing_low
                   /\ s.price < s.swing_low)
    /\ [][(ret'.op = "check_signal" /\ ret'.value # None) =>
            /\ ret'.value.price = ret'.price
            /\ Levels(ret'.value.swing_high, ret'.value.swing_low,
                      ret'.value.swing_high_date,
                      ret'.value.swing_low_date) = swing_data]_vars
    /\ [][ret'.op \in {"set_swing_levels", "set_previous_day_data",
                       "update_from_dataframe"} =>
            signals_history' = signals_history]_vars

\* C6 happens: a SELL was recorded, and the levels now in effect are other
\* levels than its snapshot, with another low.
C6_Witness ==
    /\ Len(signals_history) >= 1
    /\ signals_history[1].signal_type = "SELL"
    /\ swing_data # None
    /\ swing_data.swing_low # signals_history[1].swing_low
    /\ swing_data.swing_high_date # signals_history[1].swing_high_date

\* C7: set_swing_levels, set_previous_day_data and a successful
\* update_from_dataframe replace swing_data and leave last_signal and
\* signals_history unchanged, so that right after the refresh no price makes
\* check_signal emit the direction that fired last.
C7_RefreshKeepsDebounce ==
    [][(\/ ret'.op \in {"set_swing_levels", "set_previous_day_data"}
        \/ (ret'.op = "update_from_dataframe" /\ ret'.value)) =>
        /\ last_signal' = last_signal
        /\ signals_history' = signals_history
        /\ swing_data' # None
        /\ ret'.op = "set_swing_levels" =>
              swing_data' = Levels(ret'.high, ret'.low,
                                   ret'.high_date, ret'.low_date)
        /\ ret'.op = "set_previous_day_data" =>
              swing_data' = Levels(ret'.high, ret'.low,
                                   FormatDate(ret'.date), FormatDate(ret'.date))
        /\ \A p \in Prices :
              LET signal == NewSignal(swing_data', last_signal', p)
              IN  (signal # None /\ last_signal # None) =>
                      signal.signal_type # last_signal.signal_type]_vars

\* C7 happens: update_from_dataframe has just replaced the levels a BUY fired
\* against by levels with a lower high.
C7_Witness ==
    /\ ret.op = "update_from_dataframe"
    /\ ret.value
    /\ last_signal # None
    /\ last_signal.signal_type = "BUY"
    /\ swing_data.swing_high < last_signal.swing_high

\* C8: clear_history sets last_signal to None and signals_history to empty
\* and leaves the levels unchanged; a check_signal right after it emits on a
\* breakout in either direction, the direction dropped included.
C8_ClearRearms ==
    /\ [][ret'.op = "clear_history" =>
            /\ last_signal' = None
            /\ signals_history' = <<>>
            /\ swing_data' = swing_data]_vars
    /\ [][(/\ ret.op = "clear_history"
           /\ ret'.op = "check_signal"
           /\ swing_data # None) =>
            /\ ret'.price > swing_data.swing_high =>
                  (ret'.value # None /\ ret'.value.signal_type = "BUY")
            /\ (ret'.price <= swing_data.swing_high
                /\ ret'.price < swing_data.swing_low) =>
                  (ret'.value # None /\ ret'.value.signal_type = "SELL")]_vars

\* C8 happens: clear_history has just dropped a BUY while levels are held.
C8_Witness ==
    /\ ret.op = "clear_history"
    /\ ret.dropped # None
    /\ ret.dropped.signal_type = "BUY"
    /\ swing_data # None
    /\ last_signal = None
    /\ signals_history = <<>>

\* C9: get_market_status is a pure read: it leaves levels, last_signal and
\* signals_history unchanged, so that calling it again with the same price
\* returns the result it has just returned.
C9_StatusIsPureRead ==
    /\ [][ret'.op = "get_market_status" => engine' = engine]_vars
    /\ [](ret.op = "get_market_status" =>
            get_market_status(swing_data, ret.price) = ret.value)

\* C9 happens: get_market_status was called above the swing high while the
\* engine holds a last signal.
C9_Witness ==
    /\ ret.op = "get_market_status"
    /\ ret.value.status = "ABOVE_SWING_HIGH"
    /\ last_signal # None
    /\ signals_history # <<>>

\* C10: get_market_status agrees with check_signal up to the debounce: a
\* signal check_signal(p) emits is of direction get_market_status(p)
\* .signal_active, and with last_signal absent check_signal(p) emits BUY,
\* SELL or nothing exactly when signal_active is BUY, SELL or NEUTRAL (status
\* ABOVE_SWING_HIGH, BELOW_SWING_LOW or WITHIN_RANGE).
C10_StatusAgreesWithCheck ==
    [][(ret'.op = "check_signal" /\ swing_data # None) =>
        LET status == get_market_status(swing_data, ret'.price)
            emitted == IF ret'.value = None THEN "NEUTRAL"
                       ELSE ret'.value.signal_type
        IN  /\ ret'.value # None => emitted = status.signal_active
            /\ last_signal = None => emitted = status.signal_active
            /\ status.signal_active = "BUY" <=> status.status = "ABOVE_SWING_HIGH"
            /\ status.signal_active = "SELL" <=> status.status = "BELOW_SWING_LOW"
            /\ status.signal_active = "NEUTRAL" <=> status.status = "WITHIN_RANGE"]_vars

\* C10 happens: with no last signal, check_signal has just emitted a SELL, the
\* first signal of the history.
C10_Witness ==
    /\ ret.op = "check_signal"
    /\ ret.value # None
    /\ ret.value.signal_type = "SELL"
    /\ signals_history = <<ret.value>>

\* ------------------------------------------------- ten days, then a price
\* The self-test of signal_generator.py: a frame of ten daily bars goes into
\* update_from_dataframe on a fresh engine, then prices into check_signal.
TenDays == 10

\* Ten (High, Low) pairs with the highs of hs and the lows of ls.
HighsLows(hs, ls) == [i \in 1 .. TenDays |-> <<hs[i], ls[i]>>]

\* Highs with day 5 at 3 and every other day at 1 or 2.
Day5Highs == {hs \in [1 .. TenDays -> 1 .. 3] :
                 \A i \in 1 .. TenDays : (hs[i] = 3) <=> (i = 5)}

\* Lows with day 7 at 0 and every other day at 1 or 2.
Day7Lows == {ls \in [1 .. TenDays -> 0 .. 2] :
                \A i \in 1 .. TenDays : (ls[i] = 0) <=> (i = 7)}

\* Highs and lows that are level apart from day 5 and day 7.
FlatHighs == [i \in 1 .. TenDays |-> IF i = 5 THEN 3 ELSE 2]

FlatLows == [i \in 1 .. TenDays |-> IF i = 7 THEN 0 ELSE 1]

\* A fresh SignalGenerator() and a ten-day frame about to be passed: any
\* highs of Day5Highs over the level lows, or any lows of Day7Lows under the
\* level highs.
TenDaysInit ==
    /\ swing_data = None
    /\ last_signal = None
    /\ signals_history = <<>>
    /\ ScannerAtRest
    /\ \/ \E hs \in Day5Highs :
            ret = FrameAtHand(SwingFrame(HighsLows(hs, FlatLows), FALSE),
                              lookback_days)
       \/ \E ls \in Day7Lows :
            ret = FrameAtHand(SwingFrame(HighsLows(FlatHighs, ls), FALSE),
                              lookback_days)

TenDaysNext ==
    \/ UpdateFromFrame /\ UNCHANGED scanner_vars
    \/ CheckSignal /\ UNCHANGED scanner_vars

SpecTenDays == TenDaysInit /\ [][TenDaysNext]_vars

\* ------------------------------------------------------- BankNiftyScanner
\* A call of the data fetcher, the email sink or the callback that raised.
Raises == [raises |-> TRUE]

\* The dict get_current_price returns, by the keys it has.
EmptySample == [keys |-> {}]

NoPriceSample == [keys |-> {"timestamp"}]

PriceSample(price) == [keys |-> {"price", "timestamp"}, price |-> price]

\* A sample whose price is not a number (a null or a string in the NSE reply).
MalformedSample == [keys |-> {"price", "timestamp"}, raw |-> "n/a"]

\* A frame of one bar, as get_banknifty_data builds it from manual data.
OneBarFrame == DataFrame(<<Bar(1, 3, 2)>>)

\* Three bars with a swing high at 3 and the fallback low 2.
PeakFrame == DataFrame(<<Bar(1, 2, 2), Bar(2, 3, 2), Bar(3, 2, 2)>>)

\* Three level bars: fallback high 2 and fallback low 1.
LevelFrame == DataFrame(<<Bar(1, 2, 1), Bar(2, 2, 1), Bar(3, 2, 1)>>)

\* What get_banknifty_data(days=10) does in a sequential run: it raises, or
\* returns None, an empty frame, one bar, or three bars.
ScanFetched ==
    {Raises, None, DataFrame(<<>>), OneBarFrame, PeakFrame, LevelFrame}

\* What get_current_price() returns in a sequential run.
ScanSamples ==
    {None, EmptySample, NoPriceSample, MalformedSample} \cup
    {PriceSample(price) : price \in {-1, 0, 1, 2, 4}}

\* How the email goes: is_configured() is False, send_signal_alert returns
\* True, or it returns False (not enabled, or SMTP raised inside its try); or
\* a sink assigned to self.email_alert in place of EmailAlertSystem raises.
Emails == {"unconfigured", "sent", "failed", "raises"}

\* on_signal_callback: not set, returns, or raises.
Callbacks == {"unset", "returns", "raises"}

\* The fetches, samples, email and callback outcomes of the concurrent runs.
ConcFetched == {Raises, PeakFrame}

ConcSamples == {None, PriceSample(1), PriceSample(4)}

ConcEmails == {"unconfigured", "failed"}

ConcCallbacks == {"unset"}

\* RefreshedLevels that assigns swing_points whatever it is.
RefreshedLevelsUnconditional(levels, fetched) ==
    IF fetched = Raises THEN levels
    ELSE SwingPointsOf(fetched)

\* _initialize_previous_day_data with fetched as the outcome of
\* get_banknifty_data: the levels afterwards.
RefreshedLevels(levels, fetched) ==
    IF fetched = Raises THEN levels
    ELSE IF fetched = None THEN levels
    ELSE IF fetched.rows = <<>> THEN levels
    ELSE SwingDataAfter(levels, SwingPointsOf(fetched))

\* What _initialize_previous_day_data leaves as the last call.
Refreshed(levels, fetched) ==
    [op |-> "_initialize_previous_day_data", fetched |-> fetched,
     held |-> levels]

\* not self.current_price_data
Falsy(sample) == sample = None \/ sample.keys = {}

\* self.current_price_data.get("price", 0)
PriceOf(sample) == IF "price" \in sample.keys THEN sample.price ELSE 0

\* The price of the sample can be compared with 0; otherwise line 74 raises
\* TypeError into the except of line 100.
Comparable(sample) == "raw" \notin DOMAIN sample

\* Lines 68-76 let the scan go on to check_signal.
ValidPrice(sample) ==
    ~Falsy(sample) /\ Comparable(sample) /\ PriceOf(sample) > 0

\* BankNiftyScanner.__init__ on a fetcher that does fetched, line 42.
ScannerInit(Fetched) ==
    /\ swing_data \in {RefreshedLevels(None, fetched) : fetched \in Fetched}
    /\ last_signal = None
    /\ signals_history = <<>>
    /\ ret = [op |-> "__init__"]
    /\ ScannerAtRest

\* The engine state, as a scan finds it at entry.
EngineNow ==
    [swing_data |-> swing_data, last_signal |-> last_signal,
     signals_history |-> signals_history]

\* scan, lines 59-60: thread t enters the try block.
ScanEnterFrom(t, entry) ==
    /\ pc[t].at = "idle"
    /\ pc' = [pc EXCEPT ![t] = [Idle EXCEPT !.at = "refresh",
                                            !.entry = entry]]
    /\ UNCHANGED <<swing_data, last_signal, signals_history, ret,
                   current_price_data, is_running>>

ScanEnter(t) == ScanEnterFrom(t, None)

\* scan, line 63: self._initialize_previous_day_data()
ScanRefresh(t, Fetched) ==
    /\ pc[t].at = "refresh"
    /\ \E fetched \in Fetched :
        /\ swing_data' = RefreshedLevels(swing_data, fetched)
        /\ ret' = Refreshed(swing_data, fetched)
    /\ pc' = [pc EXCEPT ![t].at = "price"]
    /\ UNCHANGED <<last_signal, signals_history, current_price_data,
                   is_running>>

\* scan, line 66: self.current_price_data = get_current_price(), or the
\* fetcher raises into the except of line 100.
ScanGetPrice(t, Samples) ==
    /\ pc[t].at = "price"
    /\ \/ /\ pc' = [pc EXCEPT ![t].at = "return"]
          /\ UNCHANGED current_price_data
       \/ \E sample \in Samples :
          /\ current_price_data' = sample
          /\ pc' = [pc EXCEPT ![t].at = "validate"]
    /\ UNCHANGED <<swing_data, last_signal, signals_history, ret, is_running>>

\* ScanValidate without the check of line 74: a price <= 0 goes on.
ScanValidateAnyPrice(t) ==
    /\ pc[t].at = "validate"
    /\ pc' = [pc EXCEPT ![t] =
                 IF /\ ~Falsy(current_price_data)
                    /\ Comparable(current_price_data)
                    /\ "price" \in current_price_data.keys
                 THEN [@ EXCEPT !.at = "check",
                                !.sample = current_price_data,
                                !.price = PriceOf(current_price_data)]
                 ELSE [@ EXCEPT !.at = "return",
                                !.sample = current_price_data]]
    /\ UNCHANGED <<swing_data, last_signal, signals_history, ret,
                   current_price_data, is_running>>

\* scan, lines 68-76: the two early returns on self.current_price_data.
ScanValidate(t) ==
    /\ pc[t].at = "validate"
    /\ pc' = [pc EXCEPT ![t] =
                 IF ValidPrice(current_price_data)
                 THEN [@ EXCEPT !.at = "check",
                                !.sample = current_price_data,
                                !.price = PriceOf(current_price_data)]
                 ELSE [@ EXCEPT !.at = "return",
                                !.sample = current_price_data]]
    /\ UNCHANGED <<swing_data, last_signal, signals_history, ret,
                   current_price_data, is_running>>

\* scan, line 79: signal = self.signal_generator.check_signal(current_price)
ScanCheck(t) ==
    /\ pc[t].at = "check"
    /\ LET signal == NewSignal(swing_data, last_signal, pc[t].price)
       IN  /\ signal # None => Len(signals_history) < MaxHistory
           /\ last_signal' = LastSignalAfter(last_signal, signal)
           /\ signals_history' = HistoryAfter(signals_history, signal)
           /\ ret' = [op |-> "check_signal", price |-> pc[t].price,
                      value |-> signal]
           /\ pc' = [pc EXCEPT ![t] =
                        [@ EXCEPT !.at = IF signal # None THEN "notify"
                                         ELSE "return",
                                  !.signal = signal,
                                  !.value = signal,
                                  !.calls = @ \cup {"check_signal"}]]
    /\ UNCHANGED <<swing_data, current_price_data, is_running>>

\* scan, lines 85-92: the email alert for the signal.
ScanNotify(t, Outcomes) ==
    /\ pc[t].at = "notify"
    /\ \E email \in Outcomes :
        pc' = [pc EXCEPT ![t] =
                  [@ EXCEPT !.at = IF email = "raises" THEN "return"
                                   ELSE "callback",
                            !.email = email,
                            !.value = IF email = "raises" THEN None ELSE @,
                            !.calls = IF email = "unconfigured" THEN @
                                      ELSE @ \cup {"send_signal_alert"}]]
    /\ UNCHANGED <<swing_data, last_signal, signals_history, ret,
                   current_price_data, is_running>>

\* ScanCallback without the except of lines 100-102: the callback's exception
\* leaves scan.
ScanCallbackUncaught(t, Outcomes) ==
    /\ pc[t].at = "callback"
    /\ \E callback \in Outcomes :
        pc' = [pc EXCEPT ![t] =
                  [@ EXCEPT !.at = "return",
                            !.value = IF callback = "raises" THEN Raises ELSE @,
                            !.calls = IF callback = "unset" THEN @
                                      ELSE @ \cup {"on_signal_callback"}]]
    /\ UNCHANGED <<swing_data, last_signal, signals_history, ret,
                   current_price_data, is_running>>

\* scan, lines 95-96 and 100-102: the callback; when it raises the except
\* branch returns None.
ScanCallback(t, Outcomes) ==
    /\ pc[t].at = "callback"
    /\ \E callback \in Outcomes :
        pc' = [pc EXCEPT ![t] =
                  [@ EXCEPT !.at = "return",
                            !.value = IF callback = "raises" THEN None ELSE @,
                            !.calls = IF callback = "unset" THEN @
                                      ELSE @ \cup {"on_signal_callback"}]]
    /\ UNCHANGED <<swing_data, last_signal, signals_history, ret,
                   current_price_data, is_running>>

\* scan, lines 70, 76, 98, 102: return
ScanReturn(t) ==
    /\ pc[t].at = "return"
    /\ ret' = [op |-> "scan", thread |-> t, sample |-> pc[t].sample,
               signal |-> pc[t].signal, email |-> pc[t].email,
               calls |-> pc[t].calls, value |-> pc[t].value,
               entry |-> pc[t].entry]
    /\ pc' = [pc EXCEPT ![t] = Idle]
    /\ UNCHANGED <<swing_data, last_signal, signals_history,
                   current_price_data, is_running>>

\* BankNiftyScanner.refresh_previous_day_data(), the /api/refresh-data route
RefreshPreviousDayData ==
    \E fetched \in ScanFetched :
        /\ swing_data' = RefreshedLevels(swing_data, fetched)
        /\ ret' = Refreshed(swing_data, fetched)
        /\ UNCHANGED <<last_signal, signals_history>>

\* No thread is inside scan.
AllIdle == \A t \in Threads : pc[t].at = "idle"

\* One thread: the manual scans, refreshes, price updates and history
\* clearings of app.py, one request at a time.
SeqInit == ScannerInit(ScanFetched)

SeqNext ==
    \/ ScanEnterFrom("request", EngineNow)
    \/ ScanRefresh("request", ScanFetched)
    \/ ScanGetPrice("request", ScanSamples)
    \/ ScanValidate("request")
    \/ ScanCheck("request")
    \/ ScanNotify("request", Emails)
    \/ ScanCallback("request", Callbacks)
    \/ ScanReturn("request")
    \/ AllIdle /\ RefreshPreviousDayData /\ UNCHANGED scanner_vars
    \/ AllIdle /\ CheckSignal /\ UNCHANGED scanner_vars
    \/ AllIdle /\ ClearHistory /\ UNCHANGED scanner_vars

SpecScan == SeqInit /\ [][SeqNext]_vars

\* The steps of a scan under way on the request thread. The thread that runs
\* scan keeps running, and every call scan makes returns or raises.
ScanStep ==
    \/ ScanRefresh("request", ScanFetched)
    \/ ScanGetPrice("request", ScanSamples)
    \/ ScanValidate("request")
    \/ ScanCheck("request")
    \/ ScanNotify("request", Emails)
    \/ ScanCallback("request", Callbacks)
    \/ ScanReturn("request")

SpecScanFair == SpecScan /\ WF_vars(ScanStep)

\* ------------------------------------------------------ concurrent scans
\* app.py: start_scanner() runs start() and with it the initial scan, the
\* scheduler started by start() fires _scheduled_scan on its worker thread,
\* and Flask serves /api/scan on a handler thread. scanner.py and app.py take
\* no lock around scan.
ConcInit == ScannerInit(ConcFetched)

\* BankNiftyScanner.start(), lines 119-147: not running yet, it starts the
\* scheduler, sets is_running and goes into _scheduled_scan and scan.
StartScanner ==
    /\ ~is_running
    /\ pc["start"].at = "idle"
    /\ is_running' = TRUE
    /\ pc' = [pc EXCEPT !["start"] = [Idle EXCEPT !.at = "refresh"]]
    /\ UNCHANGED <<swing_data, last_signal, signals_history, ret,
                   current_price_data>>

\* A cron trigger fires _scheduled_scan, lines 104-108, on the scheduler's
\* worker thread.
ScheduledScan ==
    /\ is_running
    /\ ScanEnter("scheduler")

\* manual_scan of app.py, line 39, on a request handler thread.
ManualScan == ScanEnter("request")

ConcNext ==
    \/ StartScanner
    \/ ScheduledScan
    \/ ManualScan
    \/ \E t \in Threads : ScanRefresh(t, ConcFetched)
    \/ \E t \in Threads : ScanGetPrice(t, ConcSamples)
    \/ \E t \in Threads : ScanValidate(t)
    \/ \E t \in Threads : ScanCheck(t)
    \/ \E t \in Threads : ScanNotify(t, ConcEmails)
    \/ \E t \in Threads : ScanCallback(t, ConcCallbacks)
    \/ \E t \in Threads : ScanReturn(t)

SpecConc == ConcInit /\ [][ConcNext]_vars

\* ------------------------------------------------ construction and start()
\* app.py from its import on: line 21 constructs the scanner, __main__ calls
\* start_scanner() (line 211) and then serves requests. The start thread is
\* at "import" before line 21, at "__init__" inside the constructor before its
\* line 42, at "idle" once constructed, and at "start" inside start() between
\* scheduler.start() (line 140) and is_running = True (line 141).
StartInit ==
    /\ swing_data = None
    /\ last_signal = None
    /\ signals_history = <<>>
    /\ ret = None
    /\ current_price_data = None
    /\ is_running = FALSE
    /\ pc = [t \in Threads |->
                IF t = "start" THEN [Idle EXCEPT !.at = "import"] ELSE Idle]

\* The constructor has returned: the name scanner of app.py is bound.
Constructed == pc["start"].at \notin {"import", "__init__"}

\* BankNiftyScanner.__init__, lines 24-39: the fetcher, the engine and the
\* email sink are made, is_running = False, no scheduler.
Construct ==
    /\ pc["start"].at = "import"
    /\ pc' = [pc EXCEPT !["start"].at = "__init__"]
    /\ UNCHANGED <<swing_data, last_signal, signals_history, ret,
                   current_price_data, is_running>>

\* BankNiftyScanner.__init__, line 42: self._initialize_previous_day_data(),
\* after which the constructor returns.
ConstructInitialize ==
    /\ pc["start"].at = "__init__"
    /\ \E fetched \in ConcFetched :
        /\ swing_data' = RefreshedLevels(swing_data, fetched)
        /\ ret' = Refreshed(swing_data, fetched)
    /\ pc' = [pc EXCEPT !["start"].at = "idle"]
    /\ UNCHANGED <<last_signal, signals_history, current_price_data,
                   is_running>>

\* start(), lines 119-140: not running, it makes the scheduler, registers the
\* two cron jobs and starts the scheduler.
StartScheduler ==
    /\ pc["start"].at = "idle"
    /\ ~is_running
    /\ pc' = [pc EXCEPT !["start"].at = "start"]
    /\ UNCHANGED <<swing_data, last_signal, signals_history, ret,
                   current_price_data, is_running>>

\* start(), lines 141-147: is_running = True and the initial
\* _scheduled_scan(), which goes into scan.
StartInitialScan ==
    /\ pc["start"].at = "start"
    /\ is_running' = TRUE
    /\ pc' = [pc EXCEPT !["start"] = [Idle EXCEPT !.at = "refresh"]]
    /\ UNCHANGED <<swing_data, last_signal, signals_history, ret,
                   current_price_data>>

\* A trigger fires whether or not the scheduler has been started.
TriggerFiresUnstarted == ScanEnter("scheduler")

\* A cron trigger of the started scheduler fires _scheduled_scan on the
\* scheduler's worker thread.
TriggerFires ==
    /\ is_running \/ pc["start"].at = "start"
    /\ ScanEnter("scheduler")

\* manual_scan of app.py, line 39: the route uses the module's scanner.
ManualScanOfConstructed ==
    /\ Constructed
    /\ ScanEnter("request")

StartNext ==
    \/ Construct
    \/ ConstructInitialize
    \/ StartScheduler
    \/ StartInitialScan
    \/ TriggerFires
    \/ ManualScanOfConstructed
    \/ \E t \in Threads : ScanRefresh(t, ConcFetched)
    \/ \E t \in Threads : ScanGetPrice(t, ConcSamples)
    \/ \E t \in Threads : ScanValidate(t)
    \/ \E t \in Threads : ScanCheck(t)
    \/ \E t \in Threads : ScanNotify(t, ConcEmails)
    \/ \E t \in Threads : ScanCallback(t, ConcCallbacks)
    \/ \E t \in Threads : ScanReturn(t)

SpecStart == StartInit /\ [][StartNext]_vars

\* ------------------------------------------------ claims on find_swing_points
\* The frame a find_swing_points or update_from_dataframe state was called with
\* has at least n bars.
HasBars(n) == ret.df # None /\ Len(ret.df.rows) >= n

\* The bars of rows oldest first: bar i has i - 1 bars of an earlier date.
Chronological(rows) ==
    [i \in 1 .. Len(rows) |->
        CHOOSE b \in {rows[k] : k \in 1 .. Len(rows)} :
            Cardinality({k \in 1 .. Len(rows) : rows[k].Date < b.Date}) = i - 1]

\* The interior positions of r whose High is above both neighbours' Highs.
LocalHighs(r) ==
    {i \in 2 .. (Len(r) - 1) : r[i - 1].High < r[i].High /\ r[i + 1].High < r[i].High}

\* The interior positions of r whose Low is below both neighbours' Lows.
LocalLows(r) ==
    {i \in 2 .. (Len(r) - 1) : r[i - 1].Low > r[i].Low /\ r[i + 1].Low > r[i].Low}

\* The last n bars of r without the final one, all bars but the final one
\* when r has no more than n bars.
LastBarsButFinal(r, n) ==
    {i \in 1 .. (Len(r) - 1) : Len(r) <= n \/ i > Len(r) - n}

\* C11: find_swing_points returns as swing high the High and date of the
\* highest-index interior bar (after sorting by date) whose High is strictly
\* above both neighbours' Highs, and as swing low the Low and date of the
\* highest-index interior bar whose Low is strictly below both neighbours'
\* Lows: the most recent local extremum, whatever its height, and never a bar
\* level with a neighbour. When both kinds exist a result is returned.
C11_MostRecentLocalExtremum ==
    (ret.op = "find_swing_points" /\ HasBars(MinBars)) =>
        LET r == Chronological(ret.df.rows)
            H == LocalHighs(r)
            L == LocalLows(r)
        IN  /\ (H # {} /\ L # {}) => ret.value # None
            /\ (H # {} /\ ret.value # None) =>
                  \E i \in H :
                      /\ \A j \in H : j <= i
                      /\ ret.value.swing_high = r[i].High
                      /\ ret.value.swing_high_date = FormatDate(r[i].Date)
            /\ (L # {} /\ ret.value # None) =>
                  \E i \in L :
                      /\ \A j \in L : j <= i
                      /\ ret.value.swing_low = r[i].Low
                      /\ ret.value.swing_low_date = FormatDate(r[i].Date)

\* C11 happens: a frame handed over latest first has two local highs, the
\* older one the higher, and the swing high returned is the later, lower one;
\* the swing low returned is a local low's.
C11_Witness ==
    /\ ret.op = "find_swing_points"
    /\ HasBars(MaxBars)
    /\ ret.df.rows[1].Date > ret.df.rows[2].Date
    /\ ret.value # None
    /\ LET r == Chronological(ret.df.rows)
       IN  /\ Cardinality(LocalHighs(r)) = 2
           /\ \E i \in LocalHighs(r) : r[i].High > ret.value.swing_high
           /\ \E i \in LocalLows(r) : ret.value.swing_low = r[i].Low

\* C12: when no interior bar is a swing high, find_swing_points returns as
\* swing high the maximum High over the last lookback_days bars without the
\* final bar (all bars but the final one when the series is not longer than
\* lookback_days), with the date of a bar of that window holding it; the same
\* with the minimum Low when there is no swing low. A series whose Highs and
\* Lows both increase strictly gets this fallback on both sides.
C12_FallbackWindow ==
    (ret.op = "find_swing_points" /\ HasBars(MinBars)) =>
        LET r == Chronological(ret.df.rows)
            W == LastBarsButFinal(r, ret.lookback)
            Rising == \A i \in 1 .. (Len(r) - 1) :
                          r[i].High < r[i + 1].High /\ r[i].Low < r[i + 1].Low
        IN  /\ W # {} => ret.value # None
            /\ (LocalHighs(r) = {} /\ ret.value # None) =>
                  \E i \in W :
                      /\ \A j \in W : r[j].High <= r[i].High
                      /\ ret.value.swing_high = r[i].High
                      /\ ret.value.swing_high_date = FormatDate(r[i].Date)
            /\ (LocalLows(r) = {} /\ ret.value # None) =>
                  \E i \in W :
                      /\ \A j \in W : r[j].Low >= r[i].Low
                      /\ ret.value.swing_low = r[i].Low
                      /\ ret.value.swing_low_date = FormatDate(r[i].Date)
            /\ (Rising /\ W # {}) =>
                  /\ ret.value.swing_high = r[Len(r) - 1].High
                  /\ \A j \in W : ret.value.swing_low <= r[j].Low

\* C12 happens: a series longer than lookback_days has no swing high, and a
\* High before the window is above the swing high returned from the window.
C12_Witness ==
    /\ ret.op = "find_swing_points"
    /\ HasBars(MinBars)
    /\ Len(ret.df.rows) > ret.lookback
    /\ ret.value # None
    /\ LET r == Chronological(ret.df.rows)
       IN  /\ LocalHighs(r) = {}
           /\ \E i \in 1 .. Len(r) : r[i].High > ret.value.swing_high

\* C13: find_swing_points returns None for no frame and for every frame of
\* fewer than 3 bars; update_from_dataframe on such a frame returns False and
\* leaves the levels the engine held.
C13_TooShortIsRejected ==
    (ret.op \in {"find_swing_points", "update_from_dataframe"}
        /\ ~HasBars(MinBars)) =>
        /\ ret.op = "find_swing_points" => ret.value = None
        /\ ret.op = "update_from_dataframe" =>
              ret.value = FALSE /\ swing_data = ret.held

\* C13 happens: update_from_dataframe was called with a frame of two bars on an
\* engine holding levels, returned False and the levels are still held.
C13_Witness ==
    /\ ret.op = "update_from_dataframe"
    /\ ret.df # None
    /\ Len(ret.df.rows) = MinBars - 1
    /\ ret.value = FALSE
    /\ swing_data = HeldLevels

\* The frame at hand is in date order with pairwise distinct Highs and
\* pairwise distinct Lows.
DistinctByDate ==
    LET rows == ret.df.rows
    IN  \A i, j \in 1 .. Len(rows) :
            i < j => /\ rows[i].Date < rows[j].Date
                     /\ rows[i].High # rows[j].High
                     /\ rows[i].Low # rows[j].Low

\* The dates of the interior bars of r, as find_swing_points formats them.
InteriorDates(r) == {FormatDate(r[i].Date) : i \in 2 .. (Len(r) - 1)}

\* C14 as stated: for a series of at least 3 bars in date order with pairwise
\* distinct highs and lows, the swing high and swing low dates returned are
\* dates of interior bars, never of the first or the last bar.
C14_DatesAreInterior ==
    (ret.op = "find_swing_points" /\ HasBars(MinBars) /\ DistinctByDate
        /\ ret.value # None) =>
        /\ ret.value.swing_high_date \in InteriorDates(ret.df.rows)
        /\ ret.value.swing_low_date \in InteriorDates(ret.df.rows)

\* C14, amended: for such a series the dates returned are never the last
\* bar's; the swing high date is an interior bar's whenever the series has a
\* swing high, and the swing low date whenever it has a swing low. Without a
\* swing point the date is the fallback bar's, which may be the first bar.
C14_DatesAreNeverTheLastBar ==
    (ret.op = "find_swing_points" /\ HasBars(MinBars) /\ DistinctByDate
        /\ ret.value # None) =>
        LET r == ret.df.rows
            last == FormatDate(r[Len(r)].Date)
        IN  /\ ret.value.swing_high_date # last
            /\ ret.value.swing_low_date # last
            /\ LocalHighs(r) # {} =>
                  ret.value.swing_high_date \in InteriorDates(r)
            /\ LocalLows(r) # {} =>
                  ret.value.swing_low_date \in InteriorDates(r)

\* C14 happens: a series with distinct falling Highs has no swing high and the
\* swing high date returned is the first bar's, while its swing low is an
\* interior bar.
C14_Witness ==
    /\ ret.op = "find_swing_points"
    /\ HasBars(MinBars)
    /\ DistinctByDate
    /\ ret.value # None
    /\ LocalHighs(ret.df.rows) = {}
    /\ ret.value.swing_high_date = FormatDate(ret.df.rows[1].Date)
    /\ LocalLows(ret.df.rows) # {}

\* C16: when one side has no swing point and its fallback window is empty,
\* only that side fails: if the other side has a swing point the result is
\* present and carries that swing point's level.
C16_OtherSideStillProduced ==
    (ret.op = "find_swing_points" /\ HasBars(MinBars)) =>
        LET r == Chronological(ret.df.rows)
            W == LastBarsButFinal(r, ret.lookback)
            H == LocalHighs(r)
            L == LocalLows(r)
        IN  /\ (W = {} /\ L = {} /\ H # {}) =>
                  /\ ret.value # None
                  /\ \E i \in H : ret.value.swing_high = r[i].High
            /\ (W = {} /\ H = {} /\ L # {}) =>
                  /\ ret.value # None
                  /\ \E i \in L : ret.value.swing_low = r[i].Low

\* The frame at hand has ten bars on consecutive days, day 5 with the highest
\* High and day 7 with the lowest Low.
Day5Day7 ==
    /\ ret.op \in {"df", "update_from_dataframe"}
    /\ LET rows == ret.df.rows
       IN  /\ Len(rows) = TenDays
           /\ \A i \in 1 .. TenDays : rows[i].Date = i
           /\ \A i \in 1 .. TenDays : i # 5 => rows[i].High < rows[5].High
           /\ \A i \in 1 .. TenDays : i # 7 => rows[i].Low > rows[7].Low

\* No day after day 5 is a swing high and no day after day 7 a swing low.
NoLaterSwing ==
    /\ \A i \in LocalHighs(ret.df.rows) : i <= 5
    /\ \A i \in LocalLows(ret.df.rows) : i <= 7

\* update_from_dataframe takes the High of day 5 and the Low of day 7 of the
\* frame at hand as levels.
TakesDay5Day7 ==
    (ret.op = "df" /\ ret'.op = "update_from_dataframe") =>
        /\ ret'.value = TRUE
        /\ swing_data'.swing_high = ret.df.rows[5].High
        /\ swing_data'.swing_low = ret.df.rows[7].Low

\* The first check_signal after the update with a price above day 5's High
\* emits a BUY triggered at day 5's High, the only signal of the history.
BuyAtDay5 ==
    (ret.op = "update_from_dataframe" /\ ret'.op = "check_signal"
        /\ ret'.price > ret.df.rows[5].High) =>
        /\ ret'.value # None
        /\ ret'.value.signal_type = "BUY"
        /\ ret'.value.trigger_level = ret.df.rows[5].High
        /\ signals_history' = <<ret'.value>>

\* A check_signal that follows an emitted BUY with a price above the swing
\* high emits nothing.
OnlyOneBuy ==
    (ret.op = "check_signal" /\ ret.value # None /\ ret.value.signal_type = "BUY"
        /\ ret'.op = "check_signal" /\ ret'.price > swing_data.swing_high) =>
        ret'.value = None /\ signals_history' = signals_history

\* C15 as stated: for ten bars on consecutive days with the highest High on
\* day 5 and the lowest Low on day 7, update_from_dataframe sets the levels to
\* (day 5's High, day 7's Low), and a following check_signal with a price above
\* day 5's High on the fresh engine emits exactly one BUY with trigger_level
\* equal to day 5's High.
C15_Day5Day7Levels ==
    /\ [][Day5Day7 => TakesDay5Day7]_vars
    /\ [][Day5Day7 => BuyAtDay5]_vars
    /\ [][OnlyOneBuy]_vars

\* C15, amended: the same when in addition no day after day 5 is a swing high
\* and no day after day 7 is a swing low, so that day 5 and day 7 are the
\* most recent swing points.
C15_Day5Day7MostRecent ==
    /\ [][(Day5Day7 /\ NoLaterSwing) => TakesDay5Day7]_vars
    /\ [][(Day5Day7 /\ NoLaterSwing) => BuyAtDay5]_vars
    /\ [][OnlyOneBuy]_vars

\* C15 happens: the levels are day 5's High and day 7's Low of a ten-day
\* frame, one BUY triggered at day 5's High is the whole history, and a
\* second price above the swing high gave no signal.
C15_Witness ==
    /\ swing_data # None
    /\ swing_data.swing_high = 3
    /\ swing_data.swing_high_date = FormatDate(5)
    /\ swing_data.swing_low = 0
    /\ swing_data.swing_low_date = FormatDate(7)
    /\ Len(signals_history) = 1
    /\ signals_history[1].signal_type = "BUY"
    /\ signals_history[1].trigger_level = 3
    /\ ret.op = "check_signal"
    /\ ret.price > 3
    /\ ret.value = None

\* ------------------------------------------------------ claims on the scanner
\* The four keys of a complete levels dict.
LevelKeys == {"swing_high", "swing_low", "swing_high_date", "swing_low_date"}

\* C17: across scan, refresh_previous_day_data, check_signal and
\* clear_history, levels once present are never absent again: every step
\* leaves them as they are or replaces them by a dict with all four keys, and
\* a refresh whose fetch raised, returned None, an empty frame or a frame the
\* extraction rejects leaves the levels held before it.
C17_LevelsNeverLost ==
    /\ [][swing_data # None =>
             (swing_data' # None /\ DOMAIN swing_data' = LevelKeys)]_vars
    /\ [](ret.op = "_initialize_previous_day_data" =>
             \/ swing_data = ret.held
             \/ /\ ret.fetched \notin {Raises, None, DataFrame(<<>>)}
                /\ swing_data = SwingPointsOf(ret.fetched)
                /\ swing_data # None)

\* C17 happens: with levels held and a signal recorded, a refresh got a frame
\* the extraction rejects and the levels are those held before.
C17_Witness ==
    /\ ret.op = "_initialize_previous_day_data"
    /\ ret.fetched = OneBarFrame
    /\ ret.held # None
    /\ swing_data = ret.held
    /\ signals_history # <<>>
    /\ pc["request"].at = "price"

\* The sample is absent, lacks a price or has a non-positive price.
Rejected(sample) ==
    \/ sample = None
    \/ "price" \notin sample.keys
    \/ Comparable(sample) /\ sample.price <= 0

\* Thread t takes a step of scan after which that scan has not called
\* check_signal.
StepBeforeCheck(t) ==
    /\ pc'[t] # pc[t]
    /\ "check_signal" \notin pc[t].calls
    /\ "check_signal" \notin pc'[t].calls

\* C18: a scan whose price sample is absent, lacks a price or is not positive
\* returns None having called neither check_signal nor the email sink nor the
\* callback, and no step of it changes last_signal or signals_history.
C18_RejectedSampleAborts ==
    /\ []((ret.op = "scan" /\ Rejected(ret.sample)) =>
             (ret.value = None /\ ret.calls = {}))
    /\ [][(\E t \in Threads : StepBeforeCheck(t)) =>
             UNCHANGED <<last_signal, signals_history>>]_vars

\* C18 happens: with levels held and a BUY recorded, a scan saw a sample
\* priced 0 and returned None; the BUY is still the last signal.
C18_Witness ==
    /\ ret.op = "scan"
    /\ ret.sample = PriceSample(0)
    /\ ret.value = None
    /\ swing_data # None
    /\ Len(signals_history) = 1
    /\ last_signal = signals_history[1]
    /\ last_signal.signal_type = "BUY"

\* C19: a scan in which check_signal emitted a signal and the email failed
\* returns that signal, and the signal is last_signal and the last element of
\* signals_history.
C19_EmailFailureKeepsSignal ==
    (ret.op = "scan" /\ ret.signal # None /\ ret.email = "failed") =>
        /\ ret.value = ret.signal
        /\ last_signal = ret.signal
        /\ signals_history # <<>>
        /\ signals_history[Len(signals_history)] = ret.signal

\* The threads between entry and return of scan.
InScan == {t \in Threads : pc[t].at # "idle"}

\* C20: scan executions on one scanner exclude each other: in no reachable
\* state are two threads between entry and return of scan.
C20_ScansMutuallyExclusive == Cardinality(InScan) <= 1

\* ----------------------------------------------------------- claims on scan
\* The frame of the scan on the request thread has refreshed the levels to
\* what they were at entry and fetched a price within them.
NothingChanged(f) ==
    /\ f.entry # None
    /\ swing_data # None
    /\ swing_data = f.entry.swing_data
    /\ ValidPrice(f.sample)
    /\ swing_data.swing_low <= PriceOf(f.sample)
    /\ PriceOf(f.sample) <= swing_data.swing_high

\* C21: a scan whose refreshed levels equal the held levels and whose price
\* lies within [swing_low, swing_high] returns None and leaves levels,
\* last_signal and signals_history as they were at its entry; and every scan
\* in which no signal is emitted leaves last_signal and signals_history, so
\* the history's length, as they were, however many such scans follow each
\* other.
C21_UnchangedScanIsNoOp ==
    LET f == pc["request"]
    IN  f.at = "return" =>
            /\ NothingChanged(f) => (f.value = None /\ EngineNow = f.entry)
            /\ f.signal = None =>
                  /\ last_signal = f.entry.last_signal
                  /\ signals_history = f.entry.signals_history
                  /\ Len(signals_history) = Len(f.entry.signals_history)

\* C21 happens: a scan that went through check_signal with unchanged levels
\* and a price within them returns with a signal on record from before.
C21_Witness ==
    LET f == pc["request"]
    IN  /\ f.at = "return"
        /\ NothingChanged(f)
        /\ "check_signal" \in f.calls
        /\ f.entry.last_signal # None
        /\ Len(signals_history) = MaxHistory

\* A Signal as check_signal makes it.
IsSignal(value) ==
    /\ value # None
    /\ value # Raises
    /\ value.signal_type \in {"BUY", "SELL"}

\* The scan of frame f has room in the bounded history for the one signal it
\* may still emit.
RoomToRecord(f) ==
    f.at \in {"refresh", "price", "validate", "check"} =>
        Len(signals_history) < MaxHistory

\* C22: whatever the series fetch, the price fetch, the email sink and the
\* callback do (return nothing, return malformed data, raise), scan comes to
\* its return, what it returns is None or the Signal check_signal emitted,
\* never an exception, and at its return the engine holds the levels it
\* entered with or a complete set extracted from the fetched frame; levels
\* held at entry are never absent at the return.
C22_ScanNeverPropagates ==
    /\ [](LET f == pc["request"]
          IN  f.at = "return" =>
                  /\ f.value = None \/ (IsSignal(f.value) /\ f.value = f.signal)
                  /\ \/ swing_data = f.entry.swing_data
                     \/ /\ swing_data # None
                        /\ DOMAIN swing_data = LevelKeys
                        /\ \E fetched \in ScanFetched \ {Raises, None} :
                               swing_data = SwingPointsOf(fetched)
                  /\ f.entry.swing_data # None => swing_data # None)
    /\ ((pc["request"].at # "idle" /\ RoomToRecord(pc["request"]))
            ~> (pc["request"].at = "idle"))

\* C22 happens: with levels held, the series fetch raised, the price fetch
\* returned a sample whose price is not a number, and the scan returned None
\* with the levels it entered with.
C22_Witness ==
    /\ ret.op = "scan"
    /\ ret.sample = MalformedSample
    /\ ret.value = None
    /\ ret.entry.swing_data # None
    /\ swing_data = ret.entry.swing_data
    /\ pc["request"].at = "idle"

\* The positions of the start thread inside scan.
ScanPositions ==
    {"refresh", "price", "validate", "check", "notify", "callback", "return"}

\* C23: the constructor's level initialization is attempted once and to
\* completion before any scheduled trigger can fire: the constructor passes
\* from its line 42 only by a finished _initialize_previous_day_data and is
\* never entered again; the scheduler is started and is_running set only on a
\* constructed scanner, so no scan of the scheduler's thread is under way
\* before the constructor has returned; and start(), having started the
\* scheduler, goes into one immediate scan, the only way the start thread
\* enters scan.
C23_InitializedBeforeScheduled ==
    /\ []((pc["scheduler"].at # "idle" \/ is_running \/ pc["start"].at = "start")
            => Constructed)
    /\ [][pc["start"].at = "__init__" /\ pc'["start"].at # "__init__" =>
             /\ pc'["start"].at = "idle"
             /\ ret'.op = "_initialize_previous_day_data"
             /\ swing_data' = RefreshedLevels(swing_data, ret'.fetched)]_vars
    /\ [][Constructed => (Constructed' /\ (swing_data # None => swing_data' # None))]_vars
    /\ [][pc["start"].at = "start" /\ pc'["start"].at # "start" =>
             pc'["start"].at = "refresh" /\ is_running']_vars
    /\ [][pc["start"].at \notin ScanPositions /\ pc'["start"].at \in ScanPositions
             => pc["start"].at = "start"]_vars

\* C23 happens: the constructor's fetch gave levels, start() ran its immediate
\* scan to the end, and a scheduled scan is under way on those levels.
C23_Witness ==
    /\ is_running
    /\ ret.op = "scan"
    /\ ret.thread = "start"
    /\ pc["start"].at = "idle"
    /\ pc["scheduler"].at = "check"
    /\ swing_data # None

\* -------------------------------------------------- claims on the history
\* The last n elements of list.
LastSignals(list, n) == SubSeq(list, Len(list) - n + 1, Len(list))

\* list is an initial part of longer.
IsPrefix(list, longer) ==
    /\ Len(list) <= Len(longer)
    /\ SubSeq(longer, 1, Len(list)) = list

\* C24: for every limit K >= 0, get_signals_history(K) returns exactly the
\* last min(K, len(signals_history)) signals in emission order and leaves
\* signals_history unchanged; and every step other than clear_history leaves
\* the stored history a prefix of what it is afterwards.
C24_TruncatedOnRead ==
    /\ [](ret.op = "get_signals_history" =>
             LET n == IF ret.limit < Len(ret.held) THEN ret.limit
                      ELSE Len(ret.held)
                 last == LastSignals(ret.held, n)
             IN  /\ ret.value = [i \in 1 .. n |-> to_dict(last[i])]
                 /\ signals_history = ret.held)
    /\ [][ret'.op # "clear_history" =>
             IsPrefix(signals_history, signals_history')]_vars

\* ---------------------------------------------- value_scanner.py: numbers
\* A Python float is modelled by the exact fraction num / den in lowest terms
\* with den > 0, or by one of the IEEE values below; binary rounding is left
\* out.
RECURSIVE GCD(_, _)
GCD(a, b) == IF b = 0 THEN a ELSE GCD(b, a % b)

Abs(x) == IF x < 0 THEN 0 - x ELSE x

Fraction(num, den) ==
    LET g == GCD(Abs(num), den)
    IN  [num |-> num \div g, den |-> den \div g]

\* The float of an int.
Whole(n) == [num |-> n, den |-> 1]

\* float('inf'), float('-inf') and float('nan')
PosInf == [inf |-> 1]
NegInf == [inf |-> -1]
NaN == [nan |-> TRUE]

\* x is a finite float.
Finite(x) == DOMAIN x = {"num", "den"}

\* a <= b and a < b on finite floats
FracLeq(a, b) == a.num * b.den <= b.num * a.den
FracLess(a, b) == a.num * b.den < b.num * a.den

\* ------------------------------------------- value_scanner.py: scan_stocks
\* The stock list of the module's quick test, in the order it is submitted.
StockList == <<"RELIANCE", "TCS", "INFY">>

Symbols == {StockList[i] : i \in 1 .. Len(StockList)}

\* The dict get_stock_data_yahoo returns, with the keys scan_stocks and
\* check_conditions read; dailyRsi is None when calculate_rsi gave None or 0.
YahooData(symbol, rsi) ==
    [symbol |-> symbol, ltp |-> 100, volume |-> 1500, dailyRsi |-> rsi,
     weeklyRsi |-> None, monthlyRsi |-> None, source |-> "yahoo"]

\* The dict get_stock_data_nse returns: no RSI.
NseData(symbol) ==
    [symbol |-> symbol, ltp |-> 90, volume |-> 0, dailyRsi |-> None,
     weeklyRsi |-> None, monthlyRsi |-> None, source |-> "nse"]

\* What get_stock_data_yahoo(symbol) returns: None (no data, or an exception
\* caught at line 125) or a dict.
YahooResults(symbol) ==
    {None} \cup {YahooData(symbol, rsi) : rsi \in {None, Whole(30), Whole(70)}}

\* What get_stock_data_nse(symbol) returns: None or a dict.
NseResults(symbol) == {None, NseData(symbol)}

\* get_stock_data(symbol), lines 173-176, on the two providers' results
get_stock_data(yahoo, nse) == IF yahoo = None THEN nse ELSE yahoo

\* What future.result() gives for a symbol: the worker's get_stock_data, or
\* the exception the worker raised.
WorkerResults(symbol) ==
    {Raises} \cup
    {get_stock_data(yahoo, nse) :
        yahoo \in YahooResults(symbol), nse \in NseResults(symbol)}

\* A condition dict of scan_stocks.
Condition(timeframe, indicator, operator, value, active) ==
    [timeframe |-> timeframe, indicator |-> indicator, operator |-> operator,
     value |-> value, active |-> active]

\* The condition lists scanned with: none, the two of the quick test (lines
\* 291-292) with 70 and with 60 as upper value, and an inactive RSI condition
\* before one on the close.
ConditionLists ==
    {<<>>,
     <<Condition("Daily", "Rsi", "Greater than equal to", 40, TRUE),
       Condition("Daily", "Rsi", "Less than equal to", 70, TRUE)>>,
     <<Condition("Daily", "Rsi", "Greater than equal to", 40, TRUE),
       Condition("Daily", "Rsi", "Less than equal to", 60, TRUE)>>,
     <<Condition("Weekly", "Rsi", "Greater than", 50, FALSE),
       Condition("Daily", "Close", "Greater than", 95, TRUE)>>}

\* evaluate_condition(indicator_value, operator, value): the first branch of
\* lines 271-282 whose words the lowered operator contains.
evaluate_condition(indicator_value, operator, value) ==
    CASE operator = "Greater than equal to" -> FracLeq(value, indicator_value)
      [] operator = "Less than equal to" -> FracLeq(indicator_value, value)
      [] operator = "Greater than" -> FracLess(value, indicator_value)
      [] operator = "Less than" -> FracLess(indicator_value, value)
      [] operator = "Equal to" ->
            100 * Abs(indicator_value.num * value.den
                      - value.num * indicator_value.den)
                < indicator_value.den * value.den
      [] OTHER -> TRUE

\* The value check_conditions picks for a condition, lines 240-254.
IndicatorValue(stock_data, cond) ==
    IF cond.indicator = "Rsi"
    THEN (CASE cond.timeframe = "Daily" -> stock_data.dailyRsi
            [] cond.timeframe = "Weekly" -> stock_data.weeklyRsi
            [] cond.timeframe = "Monthly" -> stock_data.monthlyRsi
            [] OTHER -> stock_data.dailyRsi)
    ELSE IF cond.indicator = "Close" THEN Whole(stock_data.ltp)
    ELSE IF cond.indicator = "Volume" THEN Whole(stock_data.volume)
    ELSE None

\* check_conditions(stock_data, conditions): every active condition has a
\* value and holds of it.
check_conditions(stock_data, conditions) ==
    \A i \in 1 .. Len(conditions) :
        LET cond == conditions[i]
        IN  cond.active =>
                /\ IndicatorValue(stock_data, cond) # None
                /\ evaluate_condition(IndicatorValue(stock_data, cond),
                                      cond.operator, Whole(cond.value))

\* n as a decimal numeral of at least width digits.
Digits(n, width) ==
    IF width <= 1 \/ n >= 10 ^ (width - 1) THEN ToString(n)
    ELSE "0" \o ToString(n)

\* f"{volume/unit:.{places}f}": the quotient rounded to places decimals.
Fixed(volume, unit, places) ==
    LET scale == 10 ^ places
        q == (2 * volume * scale + unit) \div (2 * unit)
    IN  ToString(q \div scale) \o "." \o Digits(q % scale, places)

\* format_volume(volume), lines 179-187
format_volume(volume) ==
    IF volume >= 10000000 THEN Fixed(volume, 10000000, 2) \o "Cr"
    ELSE IF volume >= 100000 THEN Fixed(volume, 100000, 2) \o "L"
    ELSE IF volume >= 1000 THEN Fixed(volume, 1000, 1) \o "K"
    ELSE ToString(volume)

\* The dict scan_stocks appends, lines 217-218.
Formatted(stock_data) ==
    [symbol |-> stock_data.symbol, ltp |-> stock_data.ltp,
     volume |-> stock_data.volume, dailyRsi |-> stock_data.dailyRsi,
     weeklyRsi |-> stock_data.weeklyRsi, monthlyRsi |-> stock_data.monthlyRsi,
     source |-> stock_data.source,
     volumeFormatted |-> format_volume(stock_data.volume)]

\* The sort key of line 223: x.get('dailyRsi') or 0
RsiKey(stock_data) ==
    IF stock_data.dailyRsi = None \/ stock_data.dailyRsi = Whole(0)
    THEN Whole(0)
    ELSE stock_data.dailyRsi

\* sorted places x into a list already in descending key order, behind every
\* element whose key is not below its own.
InsertByRsi(sorted, x) ==
    LET ahead == Cardinality({i \in 1 .. Len(sorted) :
                                 FracLeq(RsiKey(x), RsiKey(sorted[i]))})
    IN  SubSeq(sorted, 1, ahead) \o <<x>> \o SubSeq(sorted, ahead + 1, Len(sorted))

\* results.sort(key=..., reverse=True), line 223: descending and stable.
RECURSIVE SortByRsi(_)
SortByRsi(results) ==
    IF results = <<>> THEN <<>>
    ELSE InsertByRsi(SortByRsi(SubSeq(results, 1, Len(results) - 1)),
                     results[Len(results)])

\* scan_stocks(conditions, stock_list), lines 201-208: every symbol has been
\* submitted, no future has been taken from as_completed.
StocksInit ==
    /\ swing_data = None
    /\ last_signal = None
    /\ signals_history = <<>>
    /\ ScannerAtRest
    /\ \E conditions \in ConditionLists :
       \E futures \in [Symbols -> UNION {WorkerResults(x) : x \in Symbols}] :
          /\ \A symbol \in Symbols : futures[symbol] \in WorkerResults(symbol)
          /\ ret = [op |-> "scan_stocks", at |-> "as_completed",
                    conditions |-> conditions, futures |-> futures,
                    pending |-> Symbols, results |-> <<>>, value |-> None]

\* One turn of the loop of lines 210-220 without its try: the worker's
\* exception leaves scan_stocks.
FutureCompletesUncaught ==
    /\ ret.op = "scan_stocks"
    /\ ret.at = "as_completed"
    /\ \E symbol \in ret.pending :
        LET stock_data == ret.futures[symbol]
        IN  ret' = IF stock_data = Raises
                   THEN [ret EXCEPT !.at = "raised"]
                   ELSE [ret EXCEPT
                            !.pending = @ \ {symbol},
                            !.results =
                                IF /\ stock_data # None
                                   /\ check_conditions(stock_data, ret.conditions)
                                THEN Append(@, Formatted(stock_data))
                                ELSE @]
    /\ UNCHANGED <<swing_data, last_signal, signals_history>>

\* One turn of the loop of lines 210-220: as_completed yields the future of
\* any pending symbol; its result is appended when it is data that passes
\* the conditions, and its exception is caught.
FutureCompletes ==
    /\ ret.op = "scan_stocks"
    /\ ret.at = "as_completed"
    /\ \E symbol \in ret.pending :
        LET stock_data == ret.futures[symbol]
        IN  ret' = [ret EXCEPT
                       !.pending = @ \ {symbol},
                       !.results =
                           IF /\ stock_data # Raises
                              /\ stock_data # None
                              /\ check_conditions(stock_data, ret.conditions)
                           THEN Append(@, Formatted(stock_data))
                           ELSE @]
    /\ UNCHANGED <<swing_data, last_signal, signals_history>>

\* scan_stocks, lines 223-225: all futures done, the results are sorted and
\* returned.
ScanStocksReturn ==
    /\ ret.op = "scan_stocks"
    /\ ret.at = "as_completed"
    /\ ret.pending = {}
    /\ ret' = [ret EXCEPT !.at = "returned", !.value = SortByRsi(ret.results)]
    /\ UNCHANGED <<swing_data, last_signal, signals_history>>

StocksNext ==
    \/ FutureCompletes /\ UNCHANGED scanner_vars
    \/ ScanStocksReturn /\ UNCHANGED scanner_vars

SpecStocks == StocksInit /\ [][StocksNext]_vars

\* ------------------------------------------------- claims on scan_stocks
\* The symbols whose own worker produced data without raising and whose data
\* pass the conditions.
Passing(futures, conditions) ==
    {symbol \in Symbols :
        /\ futures[symbol] # Raises
        /\ futures[symbol] # None
        /\ check_conditions(futures[symbol], conditions)}

MaxCloses == 4
MaxPeriod == 3

\* The period get_stock_data_yahoo passes, and calculate_rsi's default.
DefaultPeriod == 14

CloseValues == {1, 2, 3}

\* Close series of up to MaxCloses values.
ShortSeries == UNION {[1 .. n -> CloseValues] : n \in 0 .. MaxCloses}

\* Series around DefaultPeriod + 1 closes that rise by one at every bar, stay
\* level, or fall by one at every bar.
LongSeries ==
    {[i \in 1 .. n |-> 20 + step * i] :
        n \in (DefaultPeriod - 1) .. (DefaultPeriod + 2), step \in {-1, 0, 1}}

\* delta = prices.diff() at position i; the first position has no difference
\* (NaN), which both where() of lines 29-30 replace by 0.
Delta(prices, i) == IF i = 1 THEN 0 ELSE prices[i] - prices[i - 1]

\* delta.where(delta > 0, 0) at position i
Gain(prices, i) == IF Delta(prices, i) > 0 THEN Delta(prices, i) ELSE 0

\* -delta.where(delta < 0, 0) at position i
Loss(prices, i) == IF Delta(prices, i) < 0 THEN 0 - Delta(prices, i) ELSE 0

\* The sum of f over the positions first .. last.
RECURSIVE SumOver(_, _, _)
SumOver(f, first, last) ==
    IF first > last THEN 0 ELSE f[last] + SumOver(f, first, last - 1)

\* .rolling(window=period).mean() at the last position: the mean of the
\* trailing period values.
RollingMean(f, period) ==
    Fraction(SumOver(f, Len(f) - period + 1, Len(f)), period)

\* a / b with a zero divisor always giving NaN.
FloatDivideZeroNaN(a, b, negative_zero) ==
    IF b.num = 0 THEN NaN
    ELSE Fraction(a.num * b.den, a.den * b.num)

\* a / b on floats a >= 0 and b >= 0, as pandas divides: x / 0 is inf with
\* the sign of the zero for x > 0, and 0 / 0 is NaN. negative_zero says
\* whether a zero mean of the negated losses comes out as -0.0.
FloatDivide(a, b, negative_zero) ==
    IF b.num = 0
    THEN (IF a.num = 0 THEN NaN
          ELSE IF negative_zero THEN NegInf ELSE PosInf)
    ELSE Fraction(a.num * b.den, a.den * b.num)

\* 100 - (100 / (1 + rs)), line 33: NaN stays NaN, 100 / (1 +- inf) is a zero.
RsiOf(rs) ==
    IF rs = NaN THEN NaN
    ELSE IF ~Finite(rs) THEN Whole(100)
    ELSE Fraction(100 * (rs.num + rs.den) - 100 * rs.den, rs.num + rs.den)

\* Lines 28-35 of calculate_rsi.
LastRsi(prices, period, negative_zero) ==
    LET gain == RollingMean([i \in 1 .. Len(prices) |-> Gain(prices, i)], period)
        loss == RollingMean([i \in 1 .. Len(prices) |-> Loss(prices, i)], period)
        rsi == RsiOf(FloatDivide(gain, loss, negative_zero))
    IN  IF rsi = NaN THEN None ELSE rsi

\* calculate_rsi that asks for period closes only.
calculate_rsi_period_closes(prices, period, negative_zero) ==
    IF Len(prices) < period THEN None
    ELSE LastRsi(prices, period, negative_zero)

\* calculate_rsi(prices, period)
calculate_rsi(prices, period, negative_zero) ==
    IF Len(prices) < period + 1 THEN None
    ELSE LastRsi(prices, period, negative_zero)

\* A close series and a period are at hand.
RsiInit ==
    /\ swing_data = None
    /\ last_signal = None
    /\ signals_history = <<>>
    /\ ScannerAtRest
    /\ \/ \E prices \in ShortSeries, period \in 1 .. MaxPeriod :
             ret = [op |-> "prices", prices |-> prices, period |-> period]
       \/ \E prices \in LongSeries :
             ret = [op |-> "prices", prices |-> prices, period |-> DefaultPeriod]

\* calculate_rsi(prices, period) is called.
CalculateRsi ==
    /\ ret.op = "prices"
    /\ \E negative_zero \in BOOLEAN :
        ret' = [op |-> "calculate_rsi", prices |-> ret.prices,
                period |-> ret.period, negative_zero |-> negative_zero,
                value |-> calculate_rsi(ret.prices, ret.period, negative_zero)]
    /\ UNCHANGED <<swing_data, last_signal, signals_history>>

RsiNext == CalculateRsi /\ UNCHANGED scanner_vars

SpecRsi == RsiInit /\ [][RsiNext]_vars

\* ----------------------------------------------- claims on calculate_rsi
\* The positions of the trailing period differences of prices.
Trailing(prices, period) == (Len(prices) - period + 1) .. Len(prices)

\* C26: calculate_rsi returns None for every close series with fewer than
\* period + 1 values: the call returns, and what it returns is None.
C26_TooFewClosesIsAbsent ==
    (ret.op = "calculate_rsi" /\ Len(ret.prices) < ret.period + 1) =>
        ret.value = None

\* C26 happens: calculate_rsi was called with exactly period closes, not all
\* equal, and returned None.
C26_Witness ==
    /\ ret.op = "calculate_rsi"
    /\ Len(ret.prices) = ret.period
    /\ ret.period = MaxPeriod
    /\ ret.prices[1] < ret.prices[2]
    /\ ret.value = None

\* C27: when calculate_rsi has period + 1 closes or more and the trailing
\* period differences contain at least one gain and no loss, it returns
\* exactly 100, not None.
C27_NoLossIsHundred ==
    (/\ ret.op = "calculate_rsi"
     /\ Len(ret.prices) >= ret.period + 1
     /\ \E i \in Trailing(ret.prices, ret.period) : Delta(ret.prices, i) > 0
     /\ \A i \in Trailing(ret.prices, ret.period) : Delta(ret.prices, i) >= 0)
        => ret.value = Whole(100)

\* C27 happens: 15 closes with 14 consecutive equal gains and period 14 gave
\* 100.
C27_Witness ==
    /\ ret.op = "calculate_rsi"
    /\ ret.period = DefaultPeriod
    /\ Len(ret.prices) = DefaultPeriod + 1
    /\ \A i \in 2 .. Len(ret.prices) : Delta(ret.prices, i) = 1
    /\ ret.value = Whole(100)

\* C28: for a series of at least period + 1 closes whose trailing period
\* differences are all zero, calculate_rsi returns 100, not None.
C28_FlatIsHundred ==
    (/\ ret.op = "calculate_rsi"
     /\ Len(ret.prices) >= ret.period + 1
     /\ \A i \in Trailing(ret.prices, ret.period) : Delta(ret.prices, i) = 0)
        => ret.value = Whole(100)

\* ------------------------------------------ data_fetcher.py: the sources
\* The fetcher is at hand in ret: its _manual_data, whether yfinance could be
\* imported (YFINANCE_AVAILABLE), and the last call on it. A dict is the
\* function from its keys; a price is a float, None where absent.
Get(dict, key) == IF key \in DOMAIN dict THEN dict[key] ELSE None

\* Python's truth of a price: neither None nor 0.
Truthy(price) == price # None /\ price # Whole(0)

\* What a provider's request does: it raises, answers without data, or
\* answers with data.
Outcomes == {"raises", "empty", "data"}

\* The day before Today, the Date of the manual bar (line 87).
Yesterday == Today - 1

\* _fetch_yfinance(days), lines 107-140: the primary series, None when the
\* history is empty or anything raised.
fetch_yfinance(outcome) == IF outcome = "data" THEN PeakFrame ELSE None

\* _fetch_nse(days), lines 142-188: the fallback series, an empty frame when
\* there is no data or anything raised.
fetch_nse(outcome) == IF outcome = "data" THEN LevelFrame ELSE DataFrame(<<>>)

\* _get_price_yfinance without its try: the exception comes out.
get_price_yfinance_uncaught(outcome) ==
    IF outcome = "data" THEN [price |-> Whole(3), source |-> "yfinance"]
    ELSE IF outcome = "raises" THEN Raises
    ELSE None

\* _get_price_yfinance(), lines 213-247: the primary sample, None when there
\* is no data or anything raised.
get_price_yfinance(outcome) ==
    IF outcome = "data" THEN [price |-> Whole(3), source |-> "yfinance"]
    ELSE None

\* _get_price_nse(), lines 249-275: the fallback sample or None.
get_price_nse(outcome) ==
    IF outcome = "data" THEN [price |-> Whole(4), source |-> "nse"]
    ELSE None

\* The sample get_current_price builds from manual data, lines 194-202.
ManualSample(manual_data) ==
    [price |-> manual_data["current_price"], source |-> "manual"]

\* The frame get_banknifty_data builds from manual data, lines 87-95.
ManualFrame(manual_data) ==
    DataFrame(<<Bar(Yesterday, manual_data["previous_high"],
                    manual_data["previous_low"])>>)

\* get_current_price(), lines 190-211: what it returns and the providers it
\* called. An exception of a provider call would leave it as it is.
get_current_price(manual_data, available, yfinance, nse) ==
    IF manual_data # None /\ Truthy(Get(manual_data, "current_price"))
    THEN [value |-> ManualSample(manual_data), calls |-> {}]
    ELSE LET price_data == IF available THEN get_price_yfinance(yfinance)
                           ELSE None
             called == IF available THEN {"yfinance"} ELSE {}
         IN  IF price_data = Raises
             THEN [value |-> Raises, calls |-> called]
             ELSE IF price_data # None
             THEN [value |-> price_data, calls |-> called]
             ELSE [value |-> get_price_nse(nse), calls |-> called \cup {"nse"}]

\* get_banknifty_data without the manual branch of lines 86-96: the providers
\* are asked whatever the manual data.
get_banknifty_data_providers_only(manual_data, available, yfinance, nse) ==
    LET df == IF available THEN fetch_yfinance(yfinance) ELSE None
        called == IF available THEN {"yfinance"} ELSE {}
    IN  IF df # None /\ df.rows # <<>>
        THEN [value |-> df, calls |-> called]
        ELSE [value |-> fetch_nse(nse), calls |-> called \cup {"nse"}]

\* get_banknifty_data(days), lines 81-105: what it returns and the providers
\* it called.
get_banknifty_data(manual_data, available, yfinance, nse) ==
    IF manual_data # None /\ "previous_high" \in DOMAIN manual_data
    THEN [value |-> ManualFrame(manual_data), calls |-> {}]
    ELSE LET df == IF available THEN fetch_yfinance(yfinance) ELSE None
             called == IF available THEN {"yfinance"} ELSE {}
         IN  IF df # None /\ df.rows # <<>>
             THEN [value |-> df, calls |-> called]
             ELSE [value |-> fetch_nse(nse), calls |-> called \cup {"nse"}]

\* The manual prices /api/set-data passes on: none, 0, or a price.
ManualPrices == {None, Whole(0), Whole(2)}

\* NSEDataFetcher.__init__, lines 26-40, with no saved file.
FetcherInit ==
    /\ swing_data = None
    /\ last_signal = None
    /\ signals_history = <<>>
    /\ ScannerAtRest
    /\ \E available \in BOOLEAN :
         ret = [op |-> "__init__", manual_data |-> None, available |-> available]

\* The fetcher of ret after a call: op and the call's record.
Fetcher(op, manual_data) ==
    [op |-> op, manual_data |-> manual_data, available |-> ret.available]

\* set_manual_data(prev_high, prev_low, prev_close, current_price), lines
\* 60-71
FetcherSetManualData ==
    \E high \in LevelValues, low \in LevelValues, price \in ManualPrices :
        /\ high >= low
        /\ ret' = Fetcher("set_manual_data",
                          [previous_high |-> high, previous_low |-> low,
                           previous_close |-> low, current_price |-> price,
                           updated_at |-> "now"])
        /\ UNCHANGED <<swing_data, last_signal, signals_history>>

\* update_current_price(price), lines 73-79, with the positive prices
\* /api/update-price lets through.
FetcherUpdateCurrentPrice ==
    \E price \in {Whole(1), Whole(2)} :
        LET held == IF ret.manual_data = None THEN <<>> ELSE ret.manual_data
            keys == DOMAIN held \cup {"current_price", "price_updated_at"}
        IN  /\ ret' = Fetcher("update_current_price",
                              [key \in keys |->
                                  IF key = "current_price" THEN price
                                  ELSE IF key = "price_updated_at" THEN "now"
                                  ELSE held[key]])
            /\ UNCHANGED <<swing_data, last_signal, signals_history>>

\* get_current_price() with the two providers doing what they do.
FetcherGetCurrentPrice ==
    \E yfinance \in Outcomes, nse \in Outcomes :
        LET got == get_current_price(ret.manual_data, ret.available,
                                     yfinance, nse)
        IN  /\ ret' = [op |-> "get_current_price",
                       manual_data |-> ret.manual_data,
                       available |-> ret.available,
                       yfinance |-> yfinance, nse |-> nse,
                       calls |-> got.calls, value |-> got.value]
            /\ UNCHANGED <<swing_data, last_signal, signals_history>>

\* get_banknifty_data(days) with the two providers doing what they do.
FetcherGetBankniftyData ==
    \E yfinance \in Outcomes, nse \in Outcomes :
        LET got == get_banknifty_data(ret.manual_data, ret.available,
                                      yfinance, nse)
        IN  /\ ret' = [op |-> "get_banknifty_data",
                       manual_data |-> ret.manual_data,
                       available |-> ret.available,
                       yfinance |-> yfinance, nse |-> nse,
                       calls |-> got.calls, value |-> got.value]
            /\ UNCHANGED <<swing_data, last_signal, signals_history>>

FetchNext ==
    \/ FetcherSetManualData /\ UNCHANGED scanner_vars
    \/ FetcherUpdateCurrentPrice /\ UNCHANGED scanner_vars
    \/ FetcherGetCurrentPrice /\ UNCHANGED scanner_vars
    \/ FetcherGetBankniftyData /\ UNCHANGED scanner_vars

SpecFetch == FetcherInit /\ [][FetchNext]_vars

\* ------------------------------------------------ claims on the sources
\* The primary provider was consulted and gave data.
PrimaryGave == ret.available /\ ret.yfinance = "data"

RaceThreads == {"scheduler", "request"}

\* The prices POSTed to /api/update-price (positive, line 149).
UpdatePrices == {1, 4, 5}

RaceInit ==
    /\ swing_data \in {RefreshedLevels(None, fetched) : fetched \in ConcFetched}
    /\ last_signal = None
    /\ signals_history = <<>>
    /\ ret = [op |-> "__init__"]
    /\ current_price_data = None
    /\ is_running = TRUE
    /\ pc = [t \in Threads |-> Idle]

\* The frame of t belongs to update_price, not to scan.
InUpdatePrice(t) == "update_price" \in pc[t].calls

\* update_price of app.py, lines 146-164: a positive price arrives on a
\* request thread, current_price_data is replaced, check_signal is next.
UpdatePriceEnter(t) ==
    /\ pc[t].at = "idle"
    /\ \E price \in UpdatePrices :
        /\ current_price_data' = PriceSample(price)
        /\ pc' = [pc EXCEPT ![t] = [Idle EXCEPT !.at = "check",
                                                !.price = price,
                                                !.sample = PriceSample(price),
                                                !.calls = {"update_price"}]]
    /\ UNCHANGED <<swing_data, last_signal, signals_history, ret, is_running>>

\* check_signal, lines 201-237: the local signal is made from the levels and
\* last_signal as they are now; without a signal the call returns None.
CheckDecide(t) ==
    /\ pc[t].at = "check"
    /\ LET signal == NewSignal(swing_data, last_signal, pc[t].price)
       IN  /\ pc' = [pc EXCEPT ![t] =
                        [@ EXCEPT !.at = IF signal # None THEN "assign"
                                         ELSE "return",
                                  !.signal = signal,
                                  !.value = signal,
                                  !.calls = @ \cup {"check_signal"}]]
           /\ ret' = IF signal # None THEN ret
                     ELSE [op |-> "check_signal", price |-> pc[t].price,
                           value |-> None]
    /\ UNCHANGED <<swing_data, last_signal, signals_history,
                   current_price_data, is_running>>

\* check_signal, line 238: self.last_signal = signal
CheckAssign(t) ==
    /\ pc[t].at = "assign"
    /\ last_signal' = pc[t].signal
    /\ pc' = [pc EXCEPT ![t].at = "append"]
    /\ UNCHANGED <<swing_data, signals_history, ret, current_price_data,
                   is_running>>

\* check_signal, lines 239-241: self.signals_history.append(signal); return
CheckAppend(t) ==
    /\ pc[t].at = "append"
    /\ Len(signals_history) < MaxHistory
    /\ signals_history' = Append(signals_history, pc[t].signal)
    /\ ret' = [op |-> "check_signal", price |-> pc[t].price,
               value |-> pc[t].signal]
    /\ pc' = [pc EXCEPT ![t].at = "notify"]
    /\ UNCHANGED <<swing_data, last_signal, current_price_data, is_running>>

\* update_price of app.py, lines 168-185: with a signal and a configured
\* email, line 176 reads signal.previous_day_high, which Signal does not
\* have, and the AttributeError leaves the handler; otherwise the response
\* carries the signal's dict or null.
UpdatePriceRespond(t) ==
    /\ InUpdatePrice(t)
    /\ pc[t].at \in {"notify", "return"}
    /\ \E email \in ConcEmails :
        ret' = [op |-> "update_price", thread |-> t, price |-> pc[t].price,
                signal |-> pc[t].signal, email |-> email,
                value |-> IF pc[t].signal # None /\ email # "unconfigured"
                          THEN Raises
                          ELSE pc[t].signal]
    /\ pc' = [pc EXCEPT ![t] = Idle]
    /\ UNCHANGED <<swing_data, last_signal, signals_history,
                   current_price_data, is_running>>

RaceNext ==
    \/ \E t \in RaceThreads : ScanEnter(t)
    \/ UpdatePriceEnter("request")
    \/ \E t \in RaceThreads : ScanRefresh(t, ConcFetched)
    \/ \E t \in RaceThreads : ScanGetPrice(t, ConcSamples)
    \/ \E t \in RaceThreads : ScanValidate(t)
    \/ \E t \in RaceThreads : CheckDecide(t)
    \/ \E t \in RaceThreads : CheckAssign(t)
    \/ \E t \in RaceThreads : CheckAppend(t)
    \/ \E t \in RaceThreads : ~InUpdatePrice(t) /\ ScanNotify(t, ConcEmails)
    \/ \E t \in RaceThreads : ScanCallback(t, ConcCallbacks)
    \/ \E t \in RaceThreads : ~InUpdatePrice(t) /\ ScanReturn(t)
    \/ UpdatePriceRespond("request")

SpecRace == RaceInit /\ [][RaceNext]_vars

\* ------------------------------------- claims on concurrent check_signal
\* C30: under every interleaving of the invocations that reach check_signal
\* on one SignalGenerator (scheduled scan, manual scan, update_price),
\* signals_history never holds two adjacent signals of one direction, and
\* last_signal is always the last element of signals_history (None when the
\* history is empty).
C30_InvariantsUnderInterleaving ==
    /\ \A i \in 1 .. (Len(signals_history) - 1) :
          signals_history[i].signal_type # signals_history[i + 1].signal_type
    /\ IF signals_history = <<>> THEN last_signal = None
       ELSE last_signal = signals_history[Len(signals_history)]

\* --------------------------- check_signal against a replacement of levels
\* check_signal reads self.swing_data four times: swing_high at line 204,
\* swing_low at line 205, and the two dates inside the Signal constructor
\* (lines 219-220 or 233-234). update_from_dataframe replaces the dict at
\* line 161 on another thread (the refresh of a scheduled scan) and no lock
\* is taken, so the replacement can fall between any two of the reads.
\* ret.held logs every LevelSet that was assigned to self.swing_data.
SnapFetched == {PeakFrame, LevelFrame}

SnapInit ==
    /\ swing_data \in {RefreshedLevels(None, fetched) : fetched \in SnapFetched}
    /\ last_signal = None
    /\ signals_history = <<>>
    /\ ret = [op |-> "__init__", held |-> {swing_data}]
    /\ current_price_data = None
    /\ is_running = TRUE
    /\ pc = [t \in Threads |-> Idle]

\* update_from_dataframe, lines 154-166, on the scheduler's thread: line 161
\* is the one assignment to self.swing_data.
SnapUpdateFromDataframe ==
    /\ \E fetched \in SnapFetched :
        /\ swing_data' = RefreshedLevels(swing_data, fetched)
        /\ ret' = [op |-> "update_from_dataframe",
                   held |-> ret.held \cup {swing_data'}]
    /\ UNCHANGED <<last_signal, signals_history, current_price_data,
                   is_running, pc>>

\* check_signal, lines 201-204: swing_data is not None; swing_high is read.
SnapReadHigh(t) ==
    /\ pc[t].at = "check"
    /\ swing_data # None
    /\ pc' = [pc EXCEPT ![t] =
                [@ EXCEPT !.at = "swing_low",
                          !.value = [swing_high |-> swing_data.swing_high],
                          !.calls = @ \cup {"check_signal"}]]
    /\ UNCHANGED <<swing_data, last_signal, signals_history, ret,
                   current_price_data, is_running>>

\* check_signal, line 205: swing_low is read.
SnapReadLow(t) ==
    /\ pc[t].at = "swing_low"
    /\ pc' = [pc EXCEPT ![t] =
                [@ EXCEPT !.at = "compare",
                          !.value = [swing_high |-> @.swing_high,
                                     swing_low |-> swing_data.swing_low]]]
    /\ UNCHANGED <<swing_data, last_signal, signals_history, ret,
                   current_price_data, is_running>>

\* check_signal, lines 210-215 and 224-229: the comparisons on the two
\* locals and on last_signal choose the type and the trigger level, or the
\* call returns None.
SnapCompare(t) ==
    /\ pc[t].at = "compare"
    /\ LET locals == pc[t].value
           type == IF BreaksHigh(pc[t].price, locals)
                   THEN IF Rearmed(last_signal, "BUY") THEN "BUY" ELSE "none"
                   ELSE IF BreaksLow(pc[t].price, locals)
                   THEN IF Rearmed(last_signal, "SELL") THEN "SELL" ELSE "none"
                   ELSE "none"
       IN  pc' = [pc EXCEPT ![t] =
                    IF type = "none"
                    THEN [@ EXCEPT !.at = "return", !.value = None]
                    ELSE [@ EXCEPT !.at = "swing_high_date",
                                   !.value = [signal_type |-> type,
                                              swing_high |-> locals.swing_high,
                                              swing_low |-> locals.swing_low]]]
    /\ UNCHANGED <<swing_data, last_signal, signals_history, ret,
                   current_price_data, is_running>>

\* check_signal, line 219 or 233: self.swing_data["swing_high_date"]
SnapReadHighDate(t) ==
    /\ pc[t].at = "swing_high_date"
    /\ pc' = [pc EXCEPT ![t] =
                [@ EXCEPT !.at = "swing_low_date",
                          !.value = [signal_type |-> @.signal_type,
                                     swing_high |-> @.swing_high,
                                     swing_low |-> @.swing_low,
                                     swing_high_date |->
                                         swing_data.swing_high_date]]]
    /\ UNCHANGED <<swing_data, last_signal, signals_history, ret,
                   current_price_data, is_running>>

\* check_signal, line 220 or 234 and the constructor: the last read of
\* self.swing_data, then the Signal is made.
SnapReadLowDate(t) ==
    /\ pc[t].at = "swing_low_date"
    /\ LET locals == pc[t].value
           signal == Signal(locals.signal_type, pc[t].price,
                            IF locals.signal_type = "BUY"
                            THEN locals.swing_high ELSE locals.swing_low,
                            Levels(locals.swing_high, locals.swing_low,
                                   locals.swing_high_date,
                                   swing_data.swing_low_date))
       IN  pc' = [pc EXCEPT ![t] = [@ EXCEPT !.at = "assign",
                                             !.signal = signal,
                                             !.value = signal]]
    /\ UNCHANGED <<swing_data, last_signal, signals_history, ret,
                   current_price_data, is_running>>

\* check_signal, lines 239-241: the append and the return.
SnapAppend(t) ==
    /\ pc[t].at = "append"
    /\ Len(signals_history) < MaxHistory
    /\ signals_history' = Append(signals_history, pc[t].signal)
    /\ pc' = [pc EXCEPT ![t].at = "return"]
    /\ UNCHANGED <<swing_data, last_signal, ret, current_price_data,
                   is_running>>

\* The caller has the value of check_signal and its thread leaves.
SnapReturn(t) ==
    /\ pc[t].at = "return"
    /\ pc' = [pc EXCEPT ![t] = Idle]
    /\ UNCHANGED <<swing_data, last_signal, signals_history, ret,
                   current_price_data, is_running>>

SnapNext ==
    \/ UpdatePriceEnter("request")
    \/ SnapUpdateFromDataframe
    \/ SnapReadHigh("request")
    \/ SnapReadLow("request")
    \/ SnapCompare("request")
    \/ SnapReadHighDate("request")
    \/ SnapReadLowDate("request")
    \/ CheckAssign("request")
    \/ SnapAppend("request")
    \/ SnapReturn("request")

SpecSnap == SnapInit /\ [][SnapNext]_vars

\* The LevelSet a signal carries.
Snapshot(signal) ==
    Levels(signal.swing_high, signal.swing_low, signal.swing_high_date,
           signal.swing_low_date)

\* ---------------------------------------- claims on the signal's snapshot
\* C31: under every interleaving of a level replacement with a running
\* check_signal, each emitted signal's swing_high, swing_low,
\* swing_high_date, swing_low_date and trigger_level all come from one
\* single LevelSet that the engine held at some moment, never a mix of the
\* old and the new levels.
C31_SnapshotFromOneLevelSet ==
    \A i \in 1 .. Len(signals_history) :
        LET signal == signals_history[i]
        IN  \E levels \in ret.held :
                /\ Snapshot(signal) = levels
                /\ signal.trigger_level =
                       IF signal.signal_type = "BUY" THEN levels.swing_high
                       ELSE levels.swing_low

\* ---------------------------------------------- claims on an aborted scan
\* The scan of frame f is at its return without a usable price: the sample
\* was absent, had no price, or had a price <= 0 (lines 68-76).
Aborted(f) == f.at = "return" /\ f.entry # None /\ Rejected(f.sample)

\* C32 (as stated): a scan cycle aborted because the current price is absent
\* or non-positive mutates no engine state at all: levels, last_signal and
\* signals_history after the call equal those before the call.
C32_AbortedScanMutatesNothing ==
    Aborted(pc["request"]) => EngineNow = pc["request"].entry

\* C32 (amended): an aborted scan leaves last_signal and signals_history as
\* they were at its entry, and its levels are what the refresh of line 63
\* made of the levels held at entry; after that refresh no step of a scan
\* changes the levels.
C32_AbortedScanOnlyRefreshes ==
    /\ [](LET f == pc["request"]
          IN  Aborted(f) =>
                /\ last_signal = f.entry.last_signal
                /\ signals_history = f.entry.signals_history
                /\ \E fetched \in ScanFetched :
                      swing_data = RefreshedLevels(f.entry.swing_data, fetched))
    /\ [][pc["request"].at \notin {"idle", "refresh"} =>
             UNCHANGED swing_data]_vars

\* C32 happens: a scan that found a price of 0 is at its return with levels
\* other than those it entered with, and the BUY recorded before it.
C32_Witness ==
    LET f == pc["request"]
    IN  /\ Aborted(f)
        /\ f.sample = PriceSample(0)
        /\ f.entry.swing_data # None
        /\ swing_data # f.entry.swing_data
        /\ last_signal # None
        /\ last_signal = f.entry.last_signal

\* ------------------------------------------ claims on scan's return value
\* C33: scan returns a Signal if and only if that call appended exactly that
\* signal to signals_history; a failure of the email dispatch or of
\* on_signal_callback after the signal was recorded does not make scan
\* return None.
C33_ReturnReflectsBookkeeping ==
    LET f == pc["request"]
    IN  (f.at = "return" /\ f.entry # None) =>
            /\ IsSignal(f.value) <=>
                   Len(signals_history) = Len(f.entry.signals_history) + 1
            /\ IsSignal(f.value) =>
                   signals_history =
                       Append(f.entry.signals_history, f.value)

\* ------------------------------------- claims on the order of the tests
\* C34: the high test takes precedence over the low test for every LevelSet,
\* also with swing_high < swing_low: whenever price > swing_high the
\* candidate is BUY (status ABOVE_SWING_HIGH) even if price < swing_low
\* holds too, SELL (BELOW_SWING_LOW) is produced only when price <=
\* swing_high and price < swing_low, and check_signal and get_market_status
\* never classify one price differently.
C34_HighTestFirst ==
    [][swing_data # None =>
        LET price == ret'.price
            above == price > swing_data.swing_high
            below == price <= swing_data.swing_high
                     /\ price < swing_data.swing_low
        IN  /\ ret'.op = "check_signal" =>
                /\ (above /\ Rearmed(last_signal, "BUY")) =>
                       (ret'.value # None
                        /\ ret'.value.signal_type = "BUY"
                        /\ ret'.value.trigger_level = swing_data.swing_high)
                /\ above => (ret'.value = None
                             \/ ret'.value.signal_type = "BUY")
                /\ (ret'.value # None /\ ret'.value.signal_type = "SELL") =>
                       below
                /\ ret'.value # None =>
                       ret'.value.signal_type =
                           get_market_status(swing_data, price).signal_active
            /\ ret'.op = "get_market_status" =>
                /\ above <=> ret'.value.status = "ABOVE_SWING_HIGH"
                /\ above <=> ret'.value.signal_active = "BUY"
                /\ below <=> ret'.value.status = "BELOW_SWING_LOW"
                /\ below <=> ret'.value.signal_active = "SELL"]_vars

\* C34 happens: the levels are inverted (swing_high 1 below swing_low 3) and
\* check_signal, called with the price 2 between them, has emitted a BUY.
C34_Witness ==
    /\ ret.op = "check_signal"
    /\ swing_data # None
    /\ swing_data.swing_high < swing_data.swing_low
    /\ ret.price > swing_data.swing_high
    /\ ret.price < swing_data.swing_low
    /\ ret.value # None
    /\ ret.value.signal_type = "BUY"
    /\ ret.value.trigger_level = swing_data.swing_high

\* ----------------------------------- claims on the order of the two levels
\* The frame at hand is in date order and all its bars have one High and one
\* Low.
DateOrdered ==
    \A i \in 1 .. (Len(ret.df.rows) - 1) :
        ret.df.rows[i].Date < ret.df.rows[i + 1].Date

IdenticalBars ==
    \A i \in 1 .. Len(ret.df.rows) :
        /\ ret.df.rows[i].High = ret.df.rows[1].High
        /\ ret.df.rows[i].Low = ret.df.rows[1].Low

\* C35: find_swing_points does not guarantee swing_high >= swing_low: on
\* date-ordered series whose bars all have High >= Low it can return a
\* swing_high strictly below the swing_low, and then the two levels come from
\* different bars; a series of identical bars yields the bars' High and Low,
\* so swing_high = swing_low when High = Low (a result is returned whenever
\* the fallback window of lookback_days >= 2 bars is not empty).
C35_LevelsNotOrdered ==
    (ret.op = "find_swing_points" /\ HasBars(MinBars) /\ DateOrdered) =>
        /\ (ret.value # None /\ ret.value.swing_high < ret.value.swing_low) =>
              /\ ret.value.swing_high_date # ret.value.swing_low_date
              /\ \E i, j \in 1 .. Len(ret.df.rows) :
                    /\ i # j
                    /\ ret.df.rows[i].High = ret.value.swing_high
                    /\ ret.df.rows[j].Low = ret.value.swing_low
                    /\ FormatDate(ret.df.rows[i].Date) =
                           ret.value.swing_high_date
                    /\ FormatDate(ret.df.rows[j].Date) =
                           ret.value.swing_low_date
        /\ IdenticalBars =>
              /\ ret.lookback >= 2 => ret.value # None
              /\ ret.value # None =>
                    /\ ret.value.swing_high = ret.df.rows[1].High
                    /\ ret.value.swing_low = ret.df.rows[1].Low
                    /\ ret.df.rows[1].High = ret.df.rows[1].Low =>
                           ret.value.swing_high = ret.value.swing_low

\* C35 happens: on a date-ordered series (every bar with High >= Low, as all
\* frames at hand) the swing_high returned is strictly below the swing_low.
C35_Witness ==
    /\ ret.op = "find_swing_points"
    /\ HasBars(MinBars)
    /\ DateOrdered
    /\ \A i \in 1 .. Len(ret.df.rows) :
          ret.df.rows[i].High >= ret.df.rows[i].Low
    /\ ret.value # None
    /\ ret.value.swing_high < ret.value.swing_low

\* C35 happens also with identical bars: High = Low on every bar and the two
\* levels returned are equal.
C35_WitnessIdentical ==
    /\ ret.op = "find_swing_points"
    /\ HasBars(MinBars)
    /\ DateOrdered
    /\ IdenticalBars
    /\ ret.df.rows[1].High = ret.df.rows[1].Low
    /\ ret.value # None
    /\ ret.value.swing_high = ret.value.swing_low

\* ------------------------------------ the scanner on its fetcher, app.py
\* The scanner of app.py with the NSEDataFetcher it builds, one request at a
\* time: each action is a whole handler. The fetcher's _manual_data is kept
\* in ret.manual_data next to the last call; yfinance is installed.
\* What data/banknifty_data.json holds at startup: no file, the override an
\* earlier /api/set-data saved (with or without a price), or the price an
\* earlier /api/update-price saved on its own.
SavedData ==
    {None,
     [previous_high |-> 3, previous_low |-> 1, previous_close |-> 1,
      current_price |-> None, updated_at |-> "saved"],
     [previous_high |-> 3, previous_low |-> 1, previous_close |-> 1,
      current_price |-> Whole(4), updated_at |-> "saved"],
     [current_price |-> Whole(4), price_updated_at |-> "saved"]}

\* What the two providers do in one call, primary first: both have data, only
\* the fallback has, or the primary raises and the fallback has nothing.
ProviderRuns ==
    {<<"data", "data">>, <<"empty", "data">>, <<"raises", "empty">>}

\* The call record of the scanner's last handler with the fetcher's data.
Handled(op, manual_data, price, value) ==
    [op |-> op, manual_data |-> manual_data, price |-> price,
     value |-> value]

\* The levels after _initialize_previous_day_data on this fetcher.
FetchedLevels(levels, manual_data, yfinance, nse) ==
    RefreshedLevels(levels,
                    get_banknifty_data(manual_data, TRUE, yfinance, nse).value)

\* scanner = BankNiftyScanner(...), app.py line 21: NSEDataFetcher.__init__
\* loads the saved file (lines 39-49) and scanner.py line 42 initializes the
\* levels from get_banknifty_data.
OverrideInit ==
    /\ last_signal = None
    /\ signals_history = <<>>
    /\ ScannerAtRest
    /\ \E manual_data \in SavedData, series \in ProviderRuns :
        /\ swing_data = FetchedLevels(None, manual_data, series[1], series[2])
        /\ ret = Handled("__init__", manual_data, 0, None)

\* BankNiftyScanner.scan(), lines 54-102, with the email not configured and
\* no callback set: refresh, price, the two early returns, check_signal.
OverrideScan ==
    \E series \in ProviderRuns, quote \in ProviderRuns :
        LET levels == FetchedLevels(swing_data, ret.manual_data,
                                    series[1], series[2])
            sample == get_current_price(ret.manual_data, TRUE,
                                        quote[1], quote[2]).value
            price == IF sample = None THEN 0 ELSE sample.price.num
            signal == IF price <= 0 THEN None
                      ELSE NewSignal(levels, last_signal, price)
        IN  /\ signal # None => Len(signals_history) < MaxHistory
            /\ swing_data' = levels
            /\ current_price_data' =
                   IF sample = None THEN None ELSE PriceSample(price)
            /\ last_signal' = LastSignalAfter(last_signal, signal)
            /\ signals_history' = HistoryAfter(signals_history, signal)
            /\ ret' = Handled("scan", ret.manual_data, price, signal)
            /\ UNCHANGED <<is_running, pc>>

\* refresh_data of app.py, lines 89-97: scanner.refresh_previous_day_data()
OverrideRefresh ==
    \E series \in ProviderRuns :
        /\ swing_data' = FetchedLevels(swing_data, ret.manual_data,
                                       series[1], series[2])
        /\ ret' = Handled("refresh_previous_day_data", ret.manual_data, 0,
                          None)
        /\ UNCHANGED <<last_signal, signals_history, scanner_vars>>

\* set_manual_data of app.py, lines 98-140: the fetcher's set_manual_data,
\* then set_previous_day_data on the engine, then current_price_data when a
\* price came with the levels.
OverrideSetManualData ==
    \E high \in LevelValues, low \in LevelValues, price \in ManualPrices :
        LET date_str == FormatDate(Today)
            current_price == IF Truthy(price) THEN price ELSE None
        IN  /\ high >= low
            /\ swing_data' = Levels(high, low, date_str, date_str)
            /\ current_price_data' =
                   IF Truthy(price) THEN PriceSample(price.num)
                   ELSE current_price_data
            /\ ret' = Handled("set_manual_data",
                              [previous_high |-> high, previous_low |-> low,
                               previous_close |-> low,
                               current_price |-> price,
                               updated_at |-> "now"],
                              IF Truthy(price) THEN price.num ELSE 0, None)
            /\ UNCHANGED <<last_signal, signals_history, is_running, pc>>

\* SignalGenerator.set_swing_levels called on the scanner's engine.
OverrideSetSwingLevels ==
    \E high \in LevelValues, low \in LevelValues :
        /\ high >= low
        /\ swing_data' = Levels(high, low, FormatDate(Today),
                                FormatDate(Today))
        /\ ret' = Handled("set_swing_levels", ret.manual_data, 0, None)
        /\ UNCHANGED <<last_signal, signals_history, scanner_vars>>

\* The price POSTed to /api/update-price.
OverridePrices == {4}

\* update_price of app.py, lines 143-185, with the email not configured: the
\* fetcher's update_current_price (lines 73-79), current_price_data, then
\* check_signal.
OverrideUpdatePrice ==
    \E price \in OverridePrices :
        LET held == IF ret.manual_data = None THEN <<>> ELSE ret.manual_data
            keys == DOMAIN held \cup {"current_price", "price_updated_at"}
            signal == NewSignal(swing_data, last_signal, price)
        IN  /\ signal # None => Len(signals_history) < MaxHistory
            /\ current_price_data' = PriceSample(price)
            /\ last_signal' = LastSignalAfter(last_signal, signal)
            /\ signals_history' = HistoryAfter(signals_history, signal)
            /\ ret' = Handled("update_price",
                              [key \in keys |->
                                  IF key = "current_price" THEN Whole(price)
                                  ELSE IF key = "price_updated_at" THEN "now"
                                  ELSE held[key]],
                              price, signal)
            /\ UNCHANGED <<swing_data, is_running, pc>>

OverrideNext ==
    \/ OverrideScan
    \/ OverrideRefresh
    \/ OverrideSetManualData
    \/ OverrideSetSwingLevels
    \/ OverrideUpdatePrice

SpecOverride == OverrideInit /\ [][OverrideNext]_vars

\* -------------------------------------- claims on the manual override
\* The fetcher holds manual override data containing previous_high.
HasOverride(manual_data) ==
    manual_data # None /\ "previous_high" \in DOMAIN manual_data

\* C36: while the fetcher holds manual override data containing
\* previous_high, every level refresh by scan, refresh_previous_day_data or
\* the scanner's construction leaves the engine's levels unchanged (the
\* one-bar series is rejected by the extractor); with an override loaded from
\* disk at startup the engine holds no levels, and scan emits no signal until
\* set_previous_day_data or set_swing_levels is called explicitly.
C36_OverrideFreezesLevels ==
    /\ []((ret.op = "__init__" /\ HasOverride(ret.manual_data)) =>
             swing_data = None)
    /\ [][(HasOverride(ret.manual_data)
             /\ ret'.op \in {"scan", "refresh_previous_day_data"}) =>
             swing_data' = swing_data]_vars
    /\ [][(HasOverride(ret.manual_data) /\ swing_data = None
             /\ ret'.op \notin {"set_manual_data", "set_swing_levels"}) =>
             /\ swing_data' = None
             /\ signals_history' = signals_history
             /\ last_signal' = last_signal
             /\ ret'.op = "scan" => ret'.value = None]_vars

\* C36 happens: the override was loaded at startup with a price of 4, no
\* levels were ever set, and a scan with that price has returned None.
C36_Witness ==
    /\ ret.op = "scan"
    /\ HasOverride(ret.manual_data)
    /\ ret.manual_data.updated_at = "saved"
    /\ ret.price = 4
    /\ ret.value = None
    /\ current_price_data = PriceSample(4)
    /\ swing_data = None
    /\ signals_history = <<>>

\* ----------------------------------------------- claims on update_price
\* C37: the price-update endpoint notifies for every signal it records:
\* whenever its check_signal call emits a signal and the email sink is
\* configured, send_signal_alert is invoked with that signal's swing high
\* and swing low and the handler completes normally, returning the signal;
\* it never ends in an error after the signal has been recorded.
C37_UpdatePriceNotifies ==
    (ret.op = "update_price" /\ ret.signal # None) =>
        /\ ret.value # Raises
        /\ ret.value = ret.signal

\* --------------------------------------------------- get_stock_data_yahoo
\* What get_yahoo_chart_data returns for an interval: None, or a frame with
\* its Close column, empty or a series of LongSeries.
Chart(closes) == [Close |-> closes]

DailyCharts == {Chart(prices) : prices \in {<<>>} \cup LongSeries}

WeeklyCharts ==
    {None, Chart(<<>>)} \cup
    {Chart(prices) : prices \in {c \in LongSeries : Len(c) >= DefaultPeriod}}

MonthlyCharts ==
    {None} \cup
    {Chart(prices) : prices \in {c \in LongSeries : Len(c) = DefaultPeriod + 1}}

\* round(float(x), 2) of a finite x >= 0.
Round2(x) == Fraction((200 * x.num + x.den) \div (2 * x.den), 100)

\* round(float(rsi), 2) if rsi and not pd.isna(rsi) else None, lines 120-122:
\* None and 0.0 are falsy.
ReportedRsi(rsi) ==
    IF rsi = None THEN None
    ELSE IF rsi = Whole(0) THEN None
    ELSE IF rsi = NaN THEN None
    ELSE Round2(rsi)

\* calculate_rsi(data['Close'], 14) if data is not None and not data.empty
\* else None, lines 104-105.
RsiOfChart(data, negative_zero) ==
    IF data = None THEN None
    ELSE IF data.Close = <<>> THEN None
    ELSE calculate_rsi(data.Close, DefaultPeriod, negative_zero)

\* get_stock_data_yahoo(symbol), lines 83-127, on the three charts fetched:
\* None without daily data, else the dict (the fields check_conditions reads).
get_stock_data_yahoo(symbol, daily, weekly, monthly, negative_zero) ==
    IF daily = None THEN None
    ELSE IF daily.Close = <<>> THEN None
    ELSE [symbol |-> symbol,
          ltp |-> daily.Close[Len(daily.Close)],
          volume |-> 1500,
          dailyRsi |-> ReportedRsi(RsiOfChart(daily, negative_zero)),
          weeklyRsi |-> ReportedRsi(RsiOfChart(weekly, negative_zero)),
          monthlyRsi |-> ReportedRsi(RsiOfChart(monthly, negative_zero)),
          source |-> "yahoo"]

\* An RSI condition an oversold screen scans with.
OversoldConditions ==
    {<<Condition(timeframe, "Rsi", "Less than equal to", 30, TRUE)>> :
        timeframe \in {"Daily", "Weekly", "Monthly"}}

\* The chart data of one symbol is at hand.
YahooInit ==
    /\ swing_data = None
    /\ last_signal = None
    /\ signals_history = <<>>
    /\ ScannerAtRest
    /\ \E daily \in DailyCharts, weekly \in WeeklyCharts,
          monthly \in MonthlyCharts :
         ret = [op |-> "get_yahoo_chart_data", daily |-> daily,
                weekly |-> weekly, monthly |-> monthly]

\* get_stock_data_yahoo(symbol) is called on the data at hand; rsi holds what
\* calculate_rsi gave for the three intervals.
GetStockDataYahoo ==
    /\ ret.op = "get_yahoo_chart_data"
    /\ \E negative_zero \in BOOLEAN :
        ret' = [op |-> "get_stock_data_yahoo", daily |-> ret.daily,
                weekly |-> ret.weekly, monthly |-> ret.monthly,
                rsi |-> [dailyRsi |-> RsiOfChart(ret.daily, negative_zero),
                         weeklyRsi |-> RsiOfChart(ret.weekly, negative_zero),
                         monthlyRsi |->
                             RsiOfChart(ret.monthly, negative_zero)],
                value |-> get_stock_data_yahoo("SBIN", ret.daily, ret.weekly,
                                               ret.monthly, negative_zero)]
    /\ UNCHANGED <<swing_data, last_signal, signals_history>>

\* check_conditions(stock_data, conditions) on the dict just returned.
YahooCheckConditions ==
    /\ ret.op = "get_stock_data_yahoo"
    /\ ret.value # None
    /\ \E conditions \in OversoldConditions :
        ret' = [op |-> "check_conditions", rsi |-> ret.rsi,
                stock_data |-> ret.value, conditions |-> conditions,
                value |-> check_conditions(ret.value, conditions)]
    /\ UNCHANGED <<swing_data, last_signal, signals_history>>

YahooNext ==
    \/ GetStockDataYahoo /\ UNCHANGED scanner_vars
    \/ YahooCheckConditions /\ UNCHANGED scanner_vars

SpecYahoo == YahooInit /\ [][YahooNext]_vars

\* ---------------------------------------------- claims on the reported RSI
\* The three RSI keys of the dict.
RsiKeys == {"dailyRsi", "weeklyRsi", "monthlyRsi"}

\* C38: get_stock_data_yahoo reports an RSI value whenever calculate_rsi
\* produced one: dailyRsi, weeklyRsi and monthlyRsi are absent only when
\* calculate_rsi returned absent, and a computed RSI of exactly 0 (a window
\* with losses and no gains) is reported as 0, so that check_conditions
\* evaluates RSI conditions on it.
C38_ComputedRsiIsReported ==
    /\ (ret.op = "get_stock_data_yahoo" /\ ret.value # None) =>
          \A key \in RsiKeys :
              /\ ret.value[key] = None => ret.rsi[key] = None
              /\ ret.rsi[key] = Whole(0) => ret.value[key] = Whole(0)
    /\ ret.op = "check_conditions" =>
          LET cond == ret.conditions[1]
              computed == IndicatorValue(ret.rsi, cond)
          IN  (computed # None /\ FracLeq(computed, Whole(cond.value))) =>
                  ret.value

\* --------------------------------------- api/index.py, the serverless app
\* The Vercel function keeps its state in the module-level data_store: here
\* signals_history is data_store["signals_history"], and swing_data holds the
\* manual previous_high / previous_low / previous_close once /api/set-data
\* has stored them (None before). There is no last_signal. A cold start
\* imports the module again.
\* What ticker.history(period="5d") gives get_banknifty_data (lines 21-57):
\* it raises, is empty, has one row, or has the previous day's bar and the
\* current close.
History(high, low, price) ==
    [rows |-> 2, high |-> high, low |-> low, price |-> price]

Histories ==
    {[rows |-> 0], [rows |-> 1], Raises} \cup
    {History(3, 2, price) : price \in 1 .. 4}

\* get_banknifty_data(): the pair (prev_data, current_data).
serverless_get_banknifty_data(hist) ==
    IF hist = Raises THEN <<None, None>>
    ELSE IF hist.rows < 2 THEN <<None, None>>
    ELSE <<[high |-> hist.high, low |-> hist.low],
           [price |-> hist.price]>>

\* check_signal(current_price, prev_high, prev_low), lines 60-66: the pair
\* (signal type, trigger), the trigger None as the record None.
check_signal(current_price, prev_high, prev_low) ==
    IF current_price > prev_high THEN [type |-> "BUY", trigger |-> Whole(prev_high)]
    ELSE IF current_price < prev_low
         THEN [type |-> "SELL", trigger |-> Whole(prev_low)]
    ELSE [type |-> "NEUTRAL", trigger |-> None]

\* The module has just been imported (lines 12-18).
ServerlessInit ==
    /\ swing_data = None
    /\ last_signal = None
    /\ signals_history = <<>>
    /\ ret = [op |-> "import"]
    /\ ScannerAtRest

\* A cold start: the instance is gone and the module is imported again.
ColdStart ==
    /\ swing_data' = None
    /\ signals_history' = <<>>
    /\ ret' = [op |-> "import"]
    /\ UNCHANGED last_signal

\* manual_scan(), lines 131-162 (POST /api/scan)
ServerlessManualScan ==
    \E hist \in Histories :
        LET data == serverless_get_banknifty_data(hist)
            prev_data == data[1]
            current_data == data[2]
        IN  IF current_data = None
            THEN /\ ret' = [op |-> "manual_scan", success |-> FALSE,
                            signal |-> None]
                 /\ UNCHANGED <<swing_data, last_signal, signals_history>>
            ELSE LET checked == check_signal(current_data.price,
                                             prev_data.high, prev_data.low)
                     signal == [signal_type |-> checked.type,
                                price |-> current_data.price,
                                trigger_level |-> checked.trigger.num]
                 IN  IF checked.type # "NEUTRAL"
                     THEN /\ Len(signals_history) < MaxHistory
                          /\ signals_history' = Append(signals_history, signal)
                          /\ ret' = [op |-> "manual_scan", success |-> TRUE,
                                     signal |-> signal]
                          /\ UNCHANGED <<swing_data, last_signal>>
                     ELSE /\ ret' = [op |-> "manual_scan", success |-> TRUE,
                                     signal |-> None]
                          /\ UNCHANGED <<swing_data, last_signal,
                                         signals_history>>

\* set_data(), lines 165-178 (POST /api/set-data)
ServerlessSetData ==
    \E high \in LevelValues, low \in LevelValues :
        /\ swing_data' = [previous_high |-> high, previous_low |-> low,
                          previous_close |-> low]
        /\ ret' = [op |-> "set_data", success |-> TRUE]
        /\ UNCHANGED <<last_signal, signals_history>>

ServerlessNext ==
    \/ ColdStart /\ UNCHANGED scanner_vars
    \/ ServerlessManualScan /\ UNCHANGED scanner_vars
    \/ ServerlessSetData /\ UNCHANGED scanner_vars

SpecServerless == ServerlessInit /\ [][ServerlessNext]_vars

\* ------------------------------------------ claims on the serverless app
\* C39: the serverless variant avoids duplicate signals: repeated
\* invocations of manual_scan while the price stays above the same previous
\* high (or below the same previous low) append at most one signal of that
\* direction to data_store["signals_history"] until the opposite direction
\* has been recorded.
C39_ServerlessNoDuplicates ==
    [][(ret'.op = "manual_scan" /\ signals_history # <<>>
          /\ signals_history' # signals_history) =>
          signals_history[Len(signals_history)].signal_type #
              ret'.signal.signal_type]_vars

====
